---- MODULE Spec2Model ----
(***************************************************************************)
(* Model of the aggregation core of the morning-brief MCP server:          *)
(*   - get_gmail_messages (message pipeline: list, per-message metadata    *)
(*     fetch, thread deduplication, importance filter, sort, truncate)     *)
(*   - get_notion_tasks   (task pipeline: schema lookup, filter building,  *)
(*     three window queries, page conversion with relation lookup,         *)
(*     completion filter)                                                  *)
(* Each handler is a sequential async function; an action is the code that *)
(* runs between two await points, with the awaited provider answer drawn   *)
(* from a small set.                                                       *)
(***************************************************************************)
EXTENDS Integers, Sequences, FiniteSets, TLC

\* ---------------------------------------------------------------- bounds
\* largest number of message ids the list request answers with
MaxMsgs == 2
\* largest max_results a caller passes
MaxLimit == 2
\* largest number of pages in the provider's database
MaxPages == 2
\* latest due date of a page (instants are counted in days)
MaxDue == 3

\* ------------------------------------------------------- program constants
\* parseInt(env.GMAIL_MAX || "5", 10)
GmailMaxDefault == 5
\* listUrl maxResults = maxResults * 10
ListFactor == 10
\* parseInt(env.DAYS_AHEAD || '14', 10)
DaysAheadDefault == 14
\* 24 * 60 * 60 * 1000 milliseconds, in the model's unit of time, the day
DayLength == 1

\* the JavaScript value undefined, for optional string fields
Undef == "undefined"

\* ------------------------------------------------------------ JS helpers
\* String.prototype.toLowerCase on the strings of the model
Lower(s) ==
  CASE s = "A@x.com" -> "a@x.com"
    [] s = "B@x.com" -> "b@x.com"
    [] s = "Done" -> "done"
    [] s = "Area" -> "area"
    [] s = "Status" -> "status"
    [] s = "Name" -> "name"
    [] s = "Due" -> "due"
    [] s = "Due date" -> "due date"
    [] s = "Date" -> "date"
    [] s = "Deadline" -> "deadline"
    [] OTHER -> s

\* String.prototype.trim on the strings of the model
Trim(s) ==
  CASE s = " c@x.com" -> "c@x.com"
    [] s = " Complete" -> "Complete"
    [] s = " " -> ""
    [] OTHER -> s

\* x || undefined for a string x
OrUndef(s) == IF s = "" THEN Undef ELSE s

\* seq.map(f)
RECURSIVE MapSeq(_, _)
MapSeq(F(_), s) == IF s = <<>> THEN <<>> ELSE <<F(Head(s))>> \o MapSeq(F, Tail(s))

\* seq.filter(p)
RECURSIVE FilterSeq(_, _)
FilterSeq(P(_), s) ==
  IF s = <<>> THEN <<>>
  ELSE (IF P(Head(s)) THEN <<Head(s)>> ELSE <<>>) \o FilterSeq(P, Tail(s))

Range(s) == { s[i] : i \in 1..Len(s) }

Min(a, b) == IF a < b THEN a ELSE b

\* Array.prototype.slice(0, n) for n >= 0
Slice0(s, n) == SubSeq(s, 1, Min(n, Len(s)))


\* the state of the MCP endpoint that lists and dispatches the tools
VARIABLES
  variant,     \* the endpoint serving the request: "vercel" (route.ts) or "worker"
  dpc,         \* position of the endpoint: idle, request, parsed, called, responded
  httpMethod,  \* request.method
  rawBody,     \* what request.json() settles with: <<>> = rejects, else <<body>>
  body,        \* const body: method and params (<<>> = not read yet)
  called,      \* the tool handler awaited by the switch: <<>> = none
  returned     \* the Response returned: status, body kind, tools listed

dvars == <<variant, dpc, httpMethod, rawBody, body, called, returned>>

\* the state of two invocations of one tool handler running in one process
VARIABLES
  calls,       \* per invocation: its position, its locals and the answers it received
  heap,        \* the variables and objects of the handler's body, by scope
  overlapped   \* an invocation has taken a step while the other was in flight

cvars == <<calls, heap, overlapped>>

\* the state of one application of buildFilter and of the provider's
\* evaluation of the filter it returns
VARIABLES
  fpc,         \* position: idle, input, built, evaluated
  fdateFilter, \* dateFilter, the argument of buildFilter
  fstatusProp, \* statusProp, as buildFilter's closure sees it
  fdoneValues, \* doneValues, as buildFilter's closure sees it
  built,       \* the filter buildFilter returned (<<>> = none)
  evaluated    \* the page the provider evaluated the filter on, and the outcome

fvars == <<fpc, fdateFilter, fstatusProp, fdoneValues, built, evaluated>>

\* the state of the grouping of the window answers into the result, for
\* answers of any content
VARIABLES
  bpc,         \* position: idle, answered, done
  answered,    \* overdueData.results, todayData.results, upcomingData.results
  grouped      \* const result

bvars == <<bpc, answered, grouped>>

\* the state of one call of post_to_slack
VARIABLES
  spc,           \* position: idle, start, dm, post, done, error
  sargs,         \* args: user_id, channel (<<>> = not supplied)
  senv,          \* env: SLACK_BOT_TOKEN, SLACK_USER_ID, SLACK_FALLBACK_CHANNEL
  channelId,     \* let channelId (<<>> = undefined)
  slackRequests, \* the Slack API requests issued so far, in the order of their issue,
                 \* each with the answer it got ("" while it has none)
  sreturned      \* the value returned (<<>> = none)

svars == <<spc, sargs, senv, channelId, slackRequests, sreturned>>

\* the state of one call of getGoogleAccessToken
VARIABLES
  apc,             \* position: idle, start, refresh, done, error
  deployment,      \* the variant: "vercel" (lib/tools) or "worker" (src/tools)
  aenv,            \* env: GOOGLE_TOKEN_BASE64 set, client id and secret set
  tokenJson,       \* the decoded token.json
  refreshRequests, \* the number of token refresh requests issued
  refreshed,       \* the answer of the token refresh request ("" = none)
  areturned        \* the value returned (<<>> = none)

avars == <<apc, deployment, aenv, tokenJson, refreshRequests, refreshed, areturned>>

xvars == <<fvars, bvars, svars, avars>>

ovars == <<dvars, cvars, xvars>>

\* buildFilter is not applied
FilterIdle ==
  /\ fpc = "idle" /\ fdateFilter = <<>> /\ fstatusProp = "" /\ fdoneValues = <<>>
  /\ built = <<>> /\ evaluated = <<>>

\* no window answers are grouped
BucketIdle == bpc = "idle" /\ answered = <<>> /\ grouped = <<>>

\* no post_to_slack call is made
SlackIdle ==
  /\ spc = "idle" /\ sargs = <<>> /\ senv = <<>> /\ channelId = <<>>
  /\ slackRequests = <<>> /\ sreturned = <<>>

\* no getGoogleAccessToken call is made
AuthIdle ==
  /\ apc = "idle" /\ deployment = "none" /\ aenv = <<>> /\ tokenJson = <<>>
  /\ refreshRequests = 0 /\ refreshed = "" /\ areturned = <<>>

ExtrasIdle == FilterIdle /\ BucketIdle /\ SlackIdle /\ AuthIdle

NoResponse == [status |-> 0, kind |-> "none", tools |-> <<>>]

\* no request is served by the endpoint
DispatchIdle ==
  /\ variant = "none" /\ dpc = "idle" /\ httpMethod = "none" /\ rawBody = <<>>
  /\ body = <<>> /\ called = <<>> /\ returned = NoResponse

\* no pair of concurrent invocations is running
ConcurrentIdle == calls = <<>> /\ heap = <<>> /\ overlapped = FALSE

\* ======================================================================
\*                          get_gmail_messages
\* ======================================================================
VARIABLES
  gpc,              \* position of the handler: start, list, fetch, done, error
  gargs,            \* args: important_senders, max_results (<<>> = not supplied)
  genv,             \* env: IMPORTANT_SENDERS, GMAIL_MAX (<<>> = not set)
  importantSenders, \* const importantSenders
  maxResults,       \* const maxResults
  listOk,           \* listResponse.ok (<<>> = no answer)
  messageIds,       \* const messageIds
  idx,              \* position of the for (const mid of messageIds) loop
  fetches,          \* the answers of the metadata requests so far, in loop order
  messageMetadata,  \* Map mid -> {email, internal_date}, in insertion order
  uniqueThreads,    \* const uniqueThreads
  important,        \* let important, as it is before the in-place sort
  sorted            \* const sorted, the handler's result

gvars == <<gpc, gargs, genv, importantSenders, maxResults, listOk, messageIds, idx, fetches,
           messageMetadata, uniqueThreads, important, sorted>>

\* the state of get_notion_tasks
VARIABLES
  npc,          \* position of the handler: start, schema, query, convert, done, error
  nargs,        \* args: api_key, database_id, today_start_iso, today_end_iso, days_ahead
  nenv,         \* env: NOTION_API_KEY, NOTION_TASK_DATABASE_ID, NOTION_DONE_VALUES, DAYS_AHEAD
  daysAhead,    \* const daysAhead
  dbOk,         \* dbResponse.ok (<<>> = no answer)
  properties,   \* const properties: the schema, in Object.entries order
  dueProp,      \* let dueProp
  statusProp,   \* let statusProp
  doneValues,   \* const doneValues: the Set, in insertion order
  futureEnd,    \* const futureEnd
  filters,      \* overdueFilter, todayFilter, upcomingFilter
  requests,     \* the provider requests issued so far, in the order of their issue
  database,     \* the pages of the provider's database when the queries are answered
  rejected,     \* the window queries whose request rejected or whose answer is not JSON
  responses,    \* overdueRes.ok, todayRes.ok, upcomingRes.ok
  data,         \* (overdueData.results || []), (todayData...), (upcomingData...)
  converted,    \* per window, the pageToTask calls: task, related page asked for, answer
  result        \* const result: today, overdue, upcoming

nvars == <<npc, nargs, nenv, daysAhead, dbOk, properties, dueProp, statusProp, doneValues,
           futureEnd, filters, requests, database, rejected, responses, data, converted,
           result>>

\* ids the list request can answer with, in the order it answers
MsgIdPool == <<"m1", "m2", "m3", "m4", "m5">>

\* msg.threadId of a metadata answer: absent, or the id of the thread's first message
ThreadIdValues == {Undef, "m1"}

\* msg.internalDate of a metadata answer: <<>> absent, <<d>> the string of d
InternalDateValues == {<<>>, <<100>>, <<200>>}

\* the From header of a metadata answer: absent, a bare address, name <address>
FromHeaders ==
  { [angle |-> FALSE, name |-> "", addr |-> ""],
    [angle |-> FALSE, name |-> "", addr |-> "a@x.com"],
    [angle |-> TRUE, name |-> "Bob", addr |-> "B@x.com"] }

\* the metadata answers of the provider
MsgResponses ==
  [threadId : ThreadIdValues, internalDate : InternalDateValues, from : FromHeaders]

\* args.important_senders: not supplied, [] or a list
SendersArgValues == { <<>>, << <<>> >>, << <<"b@x.com">> >> }


\* args.max_results: not supplied, or a number
MaxArgValues == { <<>> } \cup { <<n>> : n \in 0..MaxLimit }

\* the environments: IMPORTANT_SENDERS as the pieces between its commas and
\* GMAIL_MAX as the number its string holds, both not set or both set
GmailEnvValues ==
  { [IMPORTANT_SENDERS |-> <<>>, GMAIL_MAX |-> <<>>],
    [IMPORTANT_SENDERS |-> <<"A@x.com", " c@x.com">>, GMAIL_MAX |-> <<1>>] }

\* a string of pieces is falsy when it is not set or is the empty string
EnvStringSet(pieces) == pieces # <<>> /\ pieces # <<"">>

\* args.important_senders || (env.IMPORTANT_SENDERS ? split(",").map(trim) : [])
ResolveImportantSenders(a, e) ==
  IF a.important_senders # <<>> THEN a.important_senders[1]
  ELSE IF EnvStringSet(e.IMPORTANT_SENDERS) THEN MapSeq(Trim, e.IMPORTANT_SENDERS)
  ELSE <<>>

\* args.max_results || parseInt(env.GMAIL_MAX || "5", 10)
ResolveMaxResults(a, e) ==
  IF a.max_results # <<>> /\ a.max_results[1] # 0 THEN a.max_results[1]
  ELSE IF e.GMAIL_MAX # <<>> THEN e.GMAIL_MAX[1]
  ELSE GmailMaxDefault

\* the split of the From header into fromName and fromEmail
ParseFrom(h) ==
  IF h.angle
    THEN [from_name |-> OrUndef(h.name), from_email |-> OrUndef(h.addr)]
    ELSE [from_name |-> Undef, from_email |-> OrUndef(h.addr)]

\* parseInt(msg.internalDate || "0", 10)
ParseInternalDate(d) == IF d = <<>> THEN 0 ELSE d[1]

\* the entry messageMetadata.set(mid, ...) stores for a metadata answer
MetadataOf(mid, msg) ==
  [ email |-> [ id |-> mid,
                thread_id |-> msg.threadId,
                from_name |-> ParseFrom(msg.from).from_name,
                from_email |-> ParseFrom(msg.from).from_email ],
    internal_date |-> ParseInternalDate(msg.internalDate) ]

\* email.thread_id || mid
GroupKey(email) == IF email.thread_id = Undef THEN email.id ELSE email.thread_id

\* index of key k in the Map m (a sequence of [key, value]), 0 when absent
RECURSIVE MapIndex(_, _)
MapIndex(m, k) ==
  IF m = <<>> THEN 0
  ELSE IF m[Len(m)].key = k THEN Len(m)
  ELSE MapIndex(SubSeq(m, 1, Len(m) - 1), k)

\* Map.prototype.set: a new key is appended, a known key keeps its position
MapSet(m, k, v) ==
  IF MapIndex(m, k) = 0 THEN Append(m, [key |-> k, value |-> v])
  ELSE [m EXCEPT ![MapIndex(m, k)] = [key |-> k, value |-> v]]

ShouldReplaceOnTie(known, internalDate, storedDate) ==
  ~known \/ internalDate >= storedDate

ShouldReplaceOlder(known, internalDate, storedDate) ==
  ~known \/ internalDate < storedDate

\* !threadToMetadata.has(threadId) || internalDate > stored.internal_date
ShouldReplace(known, internalDate, storedDate) ==
  ~known \/ internalDate > storedDate

\* the deduplication loop over messageMetadata.entries(): threadToMetadata
RECURSIVE DedupeLoop(_, _)
DedupeLoop(meta, threadTo) ==
  IF meta = <<>> THEN threadTo
  ELSE LET metadata == Head(meta).value
           threadId == GroupKey(metadata.email)
           at == MapIndex(threadTo, threadId)
           stored == IF at = 0 THEN 0 ELSE threadTo[at].value.internal_date
       IN DedupeLoop(Tail(meta),
            IF ShouldReplace(at # 0, metadata.internal_date, stored)
              THEN MapSet(threadTo, threadId, metadata)
              ELSE threadTo)

EmailOfEntry(entry) == entry.value.email

\* Array.from(threadToEmail.values())
UniqueThreads(meta) == MapSeq(EmailOfEntry, DedupeLoop(meta, <<>>))

\* messageMetadata.get(a.id)?.internal_date || 0
DateOf(meta, id) ==
  IF MapIndex(meta, id) = 0 THEN 0 ELSE meta[MapIndex(meta, id)].value.internal_date

MatchesExactCase(e, senders) ==
  e.from_email # Undef /\ e.from_email \in Range(senders)

\* e.from_email && senders.has(e.from_email.toLowerCase()),
\* senders = new Set(importantSenders.map(toLowerCase))
MatchesSender(e, senders) ==
  e.from_email # Undef /\ Lower(e.from_email) \in { Lower(s) : s \in Range(senders) }

ImportantAlwaysAll(threads, senders) == threads

\* the importance filter with its fallback to all threads
Important(threads, senders) ==
  LET Keep(e) == MatchesSender(e, senders)
      filtered == IF Len(senders) > 0 THEN FilterSeq(Keep, threads) ELSE <<>>
  IN IF Len(filtered) = 0 THEN threads ELSE filtered

CompareAscending(aDate, bDate) == aDate - bDate

\* the sort comparator: bDate - aDate
CompareDates(aDate, bDate) == bDate - aDate

\* stable insertion of x into the sorted sequence s
RECURSIVE InsertSorted(_, _, _)
InsertSorted(s, x, meta) ==
  IF s = <<>> THEN <<x>>
  ELSE IF CompareDates(DateOf(meta, Head(s).id), DateOf(meta, x.id)) > 0
    THEN <<x>> \o s
    ELSE <<Head(s)>> \o InsertSorted(Tail(s), x, meta)

RECURSIVE SortFrom(_, _, _)
SortFrom(done, rest, meta) ==
  IF rest = <<>> THEN done
  ELSE SortFrom(InsertSorted(done, Head(rest), meta), Tail(rest), meta)

SortTiesReversed(s, meta) ==
  LET RECURSIVE Rev(_)
      Rev(t) == IF t = <<>> THEN <<>> ELSE Rev(Tail(t)) \o <<Head(t)>>
      RECURSIVE Ins(_, _)
      Ins(t, x) ==
        IF t = <<>> THEN <<x>>
        ELSE IF DateOf(meta, Head(t).id) - DateOf(meta, x.id) > 0
          THEN <<x>> \o t
          ELSE <<Head(t)>> \o Ins(Tail(t), x)
      RECURSIVE Asc(_, _)
      Asc(d, r) == IF r = <<>> THEN d ELSE Asc(Ins(d, Head(r)), Tail(r))
  IN Rev(Asc(<<>>, s))

\* Array.prototype.sort with the comparator (stable)
SortByDate(s, meta) == SortFrom(<<>>, s, meta)

\* .slice(0, maxResults)
Truncate(s, n) == Slice0(s, n)

\* the importance filter, the sort and the truncation
Rank(threads, senders, limit, meta) ==
  Truncate(SortByDate(Important(threads, senders), meta), limit)

GmailInit ==
  /\ gpc = "start"
  /\ gargs \in [important_senders : SendersArgValues, max_results : MaxArgValues]
  /\ genv \in GmailEnvValues
  /\ importantSenders = <<>>
  /\ maxResults = 0
  /\ listOk = <<>>
  /\ messageIds = <<>>
  /\ idx = 0
  /\ fetches = <<>>
  /\ messageMetadata = <<>>
  /\ uniqueThreads = <<>>
  /\ important = <<>>
  /\ sorted = <<>>
  \* no get_notion_tasks call is made
  /\ npc = "idle"
  /\ nargs = <<>> /\ nenv = <<>>
  /\ daysAhead = 0 /\ dbOk = <<>> /\ properties = <<>> /\ dueProp = Undef
  /\ statusProp = Undef
  /\ doneValues = <<>> /\ futureEnd = 0 /\ filters = <<>> /\ database = {}
  /\ requests = <<>> /\ rejected = {} /\ responses = <<>> /\ data = <<>> /\ converted = <<>> /\ result = <<>>
  /\ DispatchIdle /\ ConcurrentIdle /\ ExtrasIdle

\* lines 121-157: what runs after the metadata loop, up to the return
GmailFinish(meta) ==
  /\ uniqueThreads' = UniqueThreads(meta)
  /\ important' = Important(uniqueThreads', importantSenders)
  /\ sorted' = Rank(uniqueThreads', importantSenders, maxResults, meta)
  /\ gpc' = "done"

\* lines 40-45: the arguments are resolved and the access token is awaited
GmailStart ==
  /\ UNCHANGED <<nvars, ovars>>
  /\ gpc = "start"
  /\ importantSenders' = ResolveImportantSenders(gargs, genv)
  /\ maxResults' = ResolveMaxResults(gargs, genv)
  /\ \E tokenOk \in BOOLEAN : gpc' = IF tokenOk THEN "list" ELSE "error"
  /\ UNCHANGED <<gargs, genv, listOk, messageIds, idx, fetches, messageMetadata,
                 uniqueThreads, important, sorted>>

ListStatusIgnored(ok) == FALSE

\* line 58: if (!listResponse.ok) throw
ListResponseThrows(ok) == ~ok

\* lines 52-60: the list request rejects, or answers with a non-success status
GmailListFails ==
  /\ UNCHANGED <<nvars, ovars>>
  /\ gpc = "list"
  /\ \E rejects \in BOOLEAN :
       IF rejects THEN gpc' = "error" /\ UNCHANGED listOk
       ELSE /\ listOk' = <<FALSE>>
            /\ gpc' = IF ListResponseThrows(FALSE) THEN "error" ELSE "done"
  /\ UNCHANGED <<gargs, genv, importantSenders, maxResults, messageIds, idx, fetches,
                 messageMetadata, uniqueThreads, important, sorted>>

\* lines 62-63: the list request answers with n message ids
GmailListResponse ==
  /\ UNCHANGED <<nvars, ovars>>
  /\ gpc = "list"
  /\ ~ListResponseThrows(TRUE)
  /\ listOk' = <<TRUE>>
  /\ \E n \in 0..MaxMsgs :
       /\ n <= maxResults * ListFactor
       /\ messageIds' = SubSeq(MsgIdPool, 1, n)
       /\ IF n = 0
            THEN /\ GmailFinish(<<>>)
                 /\ UNCHANGED idx
            ELSE /\ gpc' = "fetch"
                 /\ idx' = 1
                 /\ UNCHANGED <<uniqueThreads, important, sorted>>
  /\ UNCHANGED <<gargs, genv, importantSenders, maxResults, fetches, messageMetadata>>

ForgetsFetched(meta) == <<>>

\* lines 78 and 115-118: continue; the map is as it was before the failed fetch
AfterFailedFetch(meta) == meta

\* what follows one turn of the loop: the next turn, or the rest of the handler
GmailLoopNext(meta) ==
  /\ messageMetadata' = meta
  /\ idx' = idx + 1
  /\ IF idx = Len(messageIds)
       THEN GmailFinish(messageMetadata')
       ELSE UNCHANGED <<gpc, uniqueThreads, important, sorted>>
  /\ UNCHANGED <<gargs, genv, importantSenders, maxResults, listOk, messageIds>>

\* lines 69-114: the metadata of messageIds[idx] is fetched and stored
GmailFetchMetadata ==
  /\ UNCHANGED <<nvars, ovars>>
  /\ gpc = "fetch"
  /\ \E msg \in MsgResponses :
       /\ fetches' = Append(fetches, <<msg>>)
       /\ GmailLoopNext(MapSet(messageMetadata, messageIds[idx],
                               MetadataOf(messageIds[idx], msg)))

\* lines 78 and 115-118: the fetch throws or answers with a non-success status
GmailFetchSkipped ==
  /\ UNCHANGED <<nvars, ovars>>
  /\ gpc = "fetch"
  /\ fetches' = Append(fetches, <<>>)
  /\ GmailLoopNext(AfterFailedFetch(messageMetadata))

GmailNext ==
  \/ GmailStart
  \/ GmailListFails
  \/ GmailListResponse
  \/ GmailFetchMetadata
  \/ GmailFetchSkipped

\* ======================================================================
\*                           get_notion_tasks
\* ======================================================================
\* the three windows, in the order the code builds and queries them
Windows == <<"overdue", "today", "upcoming">>

\* (today_start_iso, today_end_iso) pairs, as instants; the last has end < start
TodayArgs == { <<2, 2>>, <<2, 3>>, <<4, 2>> }

\* args.days_ahead: not supplied, or a number of days
DaysAheadArgValues == { <<>>, <<2>> }

\* Date.now() when futureEnd is computed: the call is made before every
\* today_start_iso of TodayArgs
NowValues == { 1 }

\* (args.api_key, args.database_id): <<>> = not supplied
CredentialArgs == { << <<>>, <<"db1">> >>, << <<"secret">>, <<>> >>, << <<>>, <<>> >> }

\* the environments: NOTION_DONE_VALUES as the pieces between its commas,
\* DAYS_AHEAD as the number its string holds (<<>> = not set)
NotionEnvValues ==
  { [NOTION_API_KEY |-> <<>>, NOTION_TASK_DATABASE_ID |-> <<"db2">>,
     NOTION_DONE_VALUES |-> <<>>, DAYS_AHEAD |-> <<>>],
    [NOTION_API_KEY |-> <<"secret">>, NOTION_TASK_DATABASE_ID |-> <<>>,
     NOTION_DONE_VALUES |-> <<"Done", " Complete", " ">>, DAYS_AHEAD |-> <<1>>] }

\* the schemas the database request answers with: name and type of each property
Schemas ==
  { << [name |-> "Name", type |-> "title"], [name |-> "Due", type |-> "date"],
       [name |-> "Done", type |-> "status"], [name |-> "Area", type |-> "relation"] >>,
    << [name |-> "Name", type |-> "title"], [name |-> "Due", type |-> "rich_text"],
       [name |-> "Date", type |-> "date"], [name |-> "done", type |-> "select"] >>,
    << [name |-> "Name", type |-> "title"], [name |-> "Due", type |-> "rich_text"],
       [name |-> "Deadline", type |-> "date"] >>,
    << [name |-> "Name", type |-> "title"], [name |-> "Due date", type |-> "date"],
       [name |-> "Status", type |-> "status"] >> }

\* the due dates of pages: none, or an instant
DueValues == { <<>> } \cup { <<d>> : d \in 1..MaxDue }

\* the status or select option of pages
StatusValues == { "Done", "In Progress" }

\* the relation entries of pages: none, or two related page ids
RelationValues == { <<>>, <<"r1", "r2">> }

\* the answers of a related-page request
RelatedResponses == { "throws", "notOk", "noTitle", "titled" }

\* the title text of a related page that has one
RelatedTitle == "Work"

TypesOf(schema) == { schema[i].type : i \in 1..Len(schema) }

\* the pages a database with this schema can hold: a page has a value for each
\* property of the schema, and is identified by its values
PagesOf(schema) ==
  [ due : IF "date" \in TypesOf(schema) THEN DueValues ELSE { <<>> },
    status : IF TypesOf(schema) \cap {"status", "select"} # {} THEN StatusValues ELSE { "" },
    relation : IF "relation" \in TypesOf(schema) THEN RelationValues ELSE { <<>> } ]

\* page.id
PageId(page) == <<page.due, page.status, page.relation>>

\* page.properties, in the order of the schema
PageProps(schema, page) ==
  [ i \in 1..Len(schema) |->
      [ name |-> schema[i].name,
        type |-> schema[i].type,
        date |-> IF schema[i].type = "date" THEN page.due ELSE <<>>,
        option |-> IF schema[i].type \in {"status", "select"} THEN page.status ELSE "",
        relation |-> IF schema[i].type = "relation" THEN page.relation ELSE <<>> ] ]

\* index of the first property with this name, 0 when there is none: props[name]
PropIndex(props, name) ==
  IF \E i \in 1..Len(props) : props[i].name = name
    THEN CHOOSE i \in 1..Len(props) :
           props[i].name = name /\ \A j \in 1..(i - 1) : props[j].name # name
    ELSE 0

\* args.api_key || env.NOTION_API_KEY, and the same for the database id
ApiKey(a, e) == IF a.api_key # <<>> THEN a.api_key ELSE e.NOTION_API_KEY
DatabaseId(a, e) == IF a.database_id # <<>> THEN a.database_id ELSE e.NOTION_TASK_DATABASE_ID

\* args.days_ahead || parseInt(env.DAYS_AHEAD || '14', 10)
ResolveDaysAhead(a, e) ==
  IF a.days_ahead # <<>> /\ a.days_ahead[1] # 0 THEN a.days_ahead[1]
  ELSE IF e.DAYS_AHEAD # <<>> THEN e.DAYS_AHEAD[1]
  ELSE DaysAheadDefault

\* the candidates of the due property, in priority order
DueCandidates == <<"Due", "Due date", "Due Date", "Date">>

ResolveDuePropAnyDate(schema) ==
  LET dates == { i \in 1..Len(schema) : schema[i].type = "date" }
  IN IF dates = {} THEN "Due"
     ELSE schema[CHOOSE i \in dates : \A j \in dates : i <= j].name

\* lines 60-67: the first candidate whose declared type is date, else 'Due'
ResolveDueProp(schema) ==
  LET Hit(c) == PropIndex(schema, c) # 0 /\ schema[PropIndex(schema, c)].type = "date"
      hits == { i \in 1..Len(DueCandidates) : Hit(DueCandidates[i]) }
  IN IF hits = {} THEN "Due"
     ELSE DueCandidates[CHOOSE i \in hits : \A j \in hits : i <= j]

ResolveStatusPropAnyName(schema) ==
  LET hits == { i \in 1..Len(schema) : schema[i].type \in {"status", "select"} }
  IN IF hits = {} THEN Undef
     ELSE schema[CHOOSE i \in hits : \A j \in hits : i <= j].name

\* lines 78-84: the first status or select property named 'done' in any letter case
ResolveStatusProp(schema) ==
  LET hits == { i \in 1..Len(schema) :
                  /\ schema[i].type \in {"status", "select"}
                  /\ Lower(schema[i].name) = "done" }
  IN IF hits = {} THEN Undef
     ELSE schema[CHOOSE i \in hits : \A j \in hits : i <= j].name

\* new Set(array): the distinct elements, in order of first occurrence
RECURSIVE Distinct(_)
Distinct(s) ==
  IF s = <<>> THEN <<>>
  ELSE LET front == Distinct(SubSeq(s, 1, Len(s) - 1))
       IN IF s[Len(s)] \in Range(front) THEN front ELSE Append(front, s[Len(s)])

NonEmpty(s) == s # ""

\* lines 71-76: (env.NOTION_DONE_VALUES || 'Done').split(',').map(trim).filter(Boolean)
ResolveDoneValues(e) ==
  LET pieces == IF EnvStringSet(e.NOTION_DONE_VALUES) THEN e.NOTION_DONE_VALUES
                ELSE <<"Done">>
  IN Distinct(FilterSeq(NonEmpty, MapSeq(Trim, pieces)))

\* a date condition on the due property
DateCond(prop, cond, t) ==
  [op |-> "date", property |-> prop, cond |-> cond, date |-> t, name |-> "", parts |-> <<>>]

\* a does_not_equal condition on the status property
NotEqualCond(prop, dv) ==
  [op |-> "status", property |-> prop, cond |-> "does_not_equal", date |-> 0,
   name |-> dv, parts |-> <<>>]

Compound(op, parts) ==
  [op |-> op, property |-> "", cond |-> "", date |-> 0, name |-> "", parts |-> parts]

BuildFilterAlwaysOr(dateFilter, sProp, dValues) ==
  LET Clause(dv) == NotEqualCond(sProp, dv)
  IN Compound("and", <<dateFilter>> \o
       (IF sProp # Undef /\ Len(dValues) > 0
          THEN << Compound("or", MapSeq(Clause, dValues)) >> ELSE <<>>))

\* lines 87-105: buildFilter
BuildFilter(dateFilter, sProp, dValues) ==
  LET Clause(dv) == NotEqualCond(sProp, dv)
      notDone ==
        IF sProp # Undef /\ Len(dValues) > 0
          THEN IF Len(dValues) = 1
                 THEN << NotEqualCond(sProp, dValues[1]) >>
                 ELSE << Compound("or", MapSeq(Clause, dValues)) >>
          ELSE <<>>
  IN Compound("and", <<dateFilter>> \o notDone)

OverdueFilterInclusive(dProp, sProp, dValues, todayStart) ==
  BuildFilter(DateCond(dProp, "on_or_before", todayStart), sProp, dValues)

\* lines 110-114
OverdueFilter(dProp, sProp, dValues, todayStart) ==
  BuildFilter(DateCond(dProp, "before", todayStart), sProp, dValues)

TodayFilterOpenStart(dProp, sProp, dValues, todayStart, todayEnd) ==
  BuildFilter(Compound("and", << DateCond(dProp, "after", todayStart),
                                 DateCond(dProp, "on_or_before", todayEnd) >>),
              sProp, dValues)

\* lines 116-122
TodayFilter(dProp, sProp, dValues, todayStart, todayEnd) ==
  BuildFilter(Compound("and", << DateCond(dProp, "on_or_after", todayStart),
                                 DateCond(dProp, "on_or_before", todayEnd) >>),
              sProp, dValues)

\* line 125: Date.now() + daysAhead * 24 * 60 * 60 * 1000
FutureEnd(now, todayEnd, days) == now + days * DayLength

UpcomingFilterInclusive(dProp, sProp, dValues, todayEnd, fEnd) ==
  BuildFilter(Compound("and", << DateCond(dProp, "on_or_after", todayEnd),
                                 DateCond(dProp, "before", fEnd) >>),
              sProp, dValues)

\* lines 124-131
UpcomingFilter(dProp, sProp, dValues, todayEnd, fEnd) ==
  BuildFilter(Compound("and", << DateCond(dProp, "after", todayEnd),
                                 DateCond(dProp, "before", fEnd) >>),
              sProp, dValues)

\* the provider's reading of the conditions of a date filter
DateHolds(cond, d, t) ==
  CASE cond = "before" -> d < t
    [] cond = "after" -> d > t
    [] cond = "on_or_before" -> d <= t
    [] cond = "on_or_after" -> d >= t

\* the provider's evaluation of a filter on the properties of a page
RECURSIVE EvalFilter(_, _)
EvalFilter(f, props) ==
  CASE f.op = "and" -> \A i \in 1..Len(f.parts) : EvalFilter(f.parts[i], props)
    [] f.op = "or" -> \E i \in 1..Len(f.parts) : EvalFilter(f.parts[i], props)
    [] f.op = "date" ->
         LET at == PropIndex(props, f.property)
         IN /\ at # 0
            /\ props[at].type = "date"
            /\ props[at].date # <<>>
            /\ DateHolds(f.cond, props[at].date[1], f.date)
    [] f.op = "status" ->
         LET at == PropIndex(props, f.property)
         IN at # 0 /\ props[at].option # f.name

\* the order the provider gives pages with equal due dates
PageRank(p) ==
  (IF p.status = "Done" THEN 0 ELSE 2) + (IF p.relation = <<>> THEN 0 ELSE 1)

\* a set of pages as a sequence in ascending order of due date
RECURSIVE AscendingByDue(_)
AscendingByDue(S) ==
  IF S = {} THEN <<>>
  ELSE LET Before(p, q) ==
             \/ p.due[1] < q.due[1]
             \/ p.due[1] = q.due[1] /\ PageRank(p) <= PageRank(q)
           first == CHOOSE p \in S : \A q \in S : Before(p, q)
       IN <<first>> \o AscendingByDue(S \ {first})

\* the results of a successful window query: the pages the filter admits,
\* sorted by the due property ascending (page_size 100 is not reached)
QueryResults(db, schema, f) ==
  AscendingByDue({ p \in db : EvalFilter(f, PageProps(schema, p)) })

\* subsets of U with at most k elements
RECURSIVE SubsetsUpTo(_, _)
SubsetsUpTo(U, k) ==
  IF k = 0 THEN { {} }
  ELSE LET smaller == SubsetsUpTo(U, k - 1)
       IN smaller \cup { s \cup {p} : s \in smaller, p \in U }

\* lines 186-187: props[dueProp]?.date?.start
DueDateOf(props, dProp) ==
  IF PropIndex(props, dProp) = 0 THEN <<>> ELSE props[PropIndex(props, dProp)].date

\* lines 190-194: the relation entries of the first relation property named
\* 'area' in any letter case, <<>> when there is none
AreaRelations(props) ==
  LET hits == { i \in 1..Len(props) :
                  props[i].type = "relation" /\ Lower(props[i].name) = "area" }
  IN IF hits = {} THEN <<>>
     ELSE props[CHOOSE i \in hits : \A j \in hits : i <= j].relation

\* lines 219-230: the done flag of a page
IsDone(props, sProp, dValues) ==
  /\ sProp # Undef
  /\ PropIndex(props, sProp) # 0
  /\ props[PropIndex(props, sProp)].type \in {"status", "select"}
  /\ props[PropIndex(props, sProp)].option \in Range(dValues)

\* a request to the provider
Request(kind, target, w, i) == [kind |-> kind, target |-> target, window |-> w, index |-> i]

LookupEveryRelation(relations) == relations

\* lines 193-197: relations[0].id is the only related page asked for
LookupTargets(relations) == IF Len(relations) > 0 THEN <<relations[1]>> ELSE <<>>

\* lines 170-240: pageToTask up to its await: the task, with area still
\* undefined, the related page it asks for ("" when it asks for none) and the
\* answer to that request ("" while there is none); asked lists the related
\* pages it sends a request for; nth is the place of its answer in the order
\* in which the related-page requests of its window complete (0: none yet)
PageToTask(page, schema, dProp, sProp, dValues) ==
  LET props == PageProps(schema, page)
      relations == AreaRelations(props)
  IN [ task |-> [ id |-> PageId(page),
                  due_iso |-> DueDateOf(props, dProp),
                  area |-> Undef,
                  done |-> IsDone(props, sProp, dValues) ],
       asked |-> LookupTargets(relations),
       lookup |-> IF LookupTargets(relations) = <<>> THEN ""
                  ELSE Head(LookupTargets(relations)),
       answer |-> "",
       nth |-> 0 ]

\* the related-page requests the pageToTask calls of window w issue, from the
\* i-th call on, in the order of the calls
RECURSIVE PageRequests(_, _, _)
PageRequests(w, conv, i) ==
  IF i > Len(conv) THEN <<>>
  ELSE [ k \in 1..Len(conv[i].asked) |-> Request("page", conv[i].asked[k], w, i) ]
       \o PageRequests(w, conv, i + 1)

\* lines 196-213: the area a related-page answer gives
AreaOf(response) == IF response = "titled" THEN RelatedTitle ELSE Undef

TaskOf(c) == c.task

NotDone(t) == ~t.done

KeepAll(tasks) == tasks

\* lines 248-249: filterDone
FilterDone(tasks) == FilterSeq(NotDone, tasks)

\* the calls placed in the order in which their related-page requests
\* completed, a call that made no request before those that did
RECURSIVE ByCompletion(_)
ByCompletion(cs) ==
  IF Len(cs) <= 1 THEN cs
  ELSE LET rest == ByCompletion(Tail(cs))
           before == SelectSeq(rest, LAMBDA c : c.nth < Head(cs).nth)
           after == SelectSeq(rest, LAMBDA c : c.nth >= Head(cs).nth)
       IN before \o <<Head(cs)>> \o after

\* the lists filled as the calls complete
ResultInCompletionOrder(conv) ==
  [ today |-> FilterDone(MapSeq(TaskOf, ByCompletion(conv.today))),
    overdue |-> FilterDone(MapSeq(TaskOf, ByCompletion(conv.overdue))),
    upcoming |-> FilterDone(MapSeq(TaskOf, ByCompletion(conv.upcoming))) ]

\* lines 242-255: Promise.all keeps the place of each call; const result
ResultOf(conv) ==
  [ today |-> FilterDone(MapSeq(TaskOf, conv.today)),
    overdue |-> FilterDone(MapSeq(TaskOf, conv.overdue)),
    upcoming |-> FilterDone(MapSeq(TaskOf, conv.upcoming)) ]

\* a pageToTask call awaits the answer of its related-page request
Pending(c) == c.lookup # "" /\ c.answer = ""

\* the number of related-page requests of one window's calls that completed
Completions(cs) == Cardinality({ j \in 1..Len(cs) : cs[j].answer # "" })

NoPending(conv) ==
  \A w \in Range(Windows) : \A i \in 1..Len(conv[w]) : ~Pending(conv[w][i])

AbortsOnThrow(response) == response = "throws"

\* lines 196 and 211-213: the try around the request catches what it throws
LookupAborts(response) == FALSE

EmptyWindows == [overdue |-> <<>>, today |-> <<>>, upcoming |-> <<>>]

\* the sets of window queries that answer with an error body (no results)
FailSets == { {}, {"overdue"}, {"today"}, {"upcoming"} }

NotionInit ==
  /\ npc = "start"
  /\ nargs \in { [ api_key |-> c[1], database_id |-> c[2], today_start_iso |-> t[1],
                   today_end_iso |-> t[2], days_ahead |-> a ] :
                 c \in CredentialArgs, t \in TodayArgs, a \in DaysAheadArgValues }
  /\ nenv \in NotionEnvValues
  /\ daysAhead = 0
  /\ dbOk = <<>>
  /\ properties = <<>>
  /\ dueProp = Undef
  /\ statusProp = Undef
  /\ doneValues = <<>>
  /\ futureEnd = 0
  /\ filters = <<>>
  /\ requests = <<>>
  /\ database = {}
  /\ rejected = {}
  /\ responses = <<>>
  /\ data = EmptyWindows
  /\ converted = EmptyWindows
  /\ result = EmptyWindows
  \* no get_gmail_messages call is made
  /\ gpc = "idle"
  /\ gargs = <<>> /\ genv = <<>>
  /\ importantSenders = <<>> /\ maxResults = 0 /\ listOk = <<>> /\ messageIds = <<>>
  /\ idx = 0
  /\ fetches = <<>> /\ messageMetadata = <<>> /\ uniqueThreads = <<>> /\ important = <<>> /\ sorted = <<>>
  /\ DispatchIdle /\ ConcurrentIdle /\ ExtrasIdle

OnlyKeyRequired(a, e) == ApiKey(a, e) = <<>>

\* line 37: !apiKey || !databaseId
ConfigMissing(a, e) == ApiKey(a, e) = <<>> \/ DatabaseId(a, e) = <<>>

\* the window queries issued together with the database request
NotionStartEager ==
  /\ UNCHANGED <<gvars, ovars>>
  /\ npc = "start"
  /\ daysAhead' = ResolveDaysAhead(nargs, nenv)
  /\ IF ConfigMissing(nargs, nenv)
       THEN npc' = "error" /\ UNCHANGED requests
       ELSE /\ npc' = "schema"
            /\ requests' = << Request("database", DatabaseId(nargs, nenv), "", 0),
                              Request("query", "overdue", "overdue", 0),
                              Request("query", "today", "today", 0),
                              Request("query", "upcoming", "upcoming", 0) >>
  /\ UNCHANGED <<nargs, nenv, dbOk, properties, dueProp, statusProp, doneValues, futureEnd,
                 filters, database, rejected, responses, data, converted, result>>

\* lines 30-51: the arguments are resolved; a missing key or id throws,
\* otherwise the database request is issued
NotionStart ==
  /\ UNCHANGED <<gvars, ovars>>
  /\ npc = "start"
  /\ daysAhead' = ResolveDaysAhead(nargs, nenv)
  /\ IF ConfigMissing(nargs, nenv)
       THEN npc' = "error" /\ UNCHANGED requests
       ELSE /\ npc' = "schema"
            /\ requests' = << Request("database", DatabaseId(nargs, nenv), "", 0) >>
  /\ UNCHANGED <<nargs, nenv, dbOk, properties, dueProp, statusProp, doneValues, futureEnd,
                 filters, database, rejected, responses, data, converted, result>>

DbStatusIgnored(ok) == FALSE

\* line 53: if (!dbResponse.ok) throw
DbResponseThrows(ok) == ~ok

\* lines 57-131: the schema is read, the properties are resolved, the three
\* filters are built and the three queries are issued
SchemaRead(schema, now) ==
  LET dProp == ResolveDueProp(schema)
      sProp == ResolveStatusProp(schema)
      dValues == ResolveDoneValues(nenv)
      fEnd == FutureEnd(now, nargs.today_end_iso, daysAhead)
  IN /\ properties' = schema
     /\ dueProp' = dProp
     /\ statusProp' = sProp
     /\ doneValues' = dValues
     /\ futureEnd' = fEnd
     /\ filters' =
          [ overdue |-> OverdueFilter(dProp, sProp, dValues, nargs.today_start_iso),
            today |-> TodayFilter(dProp, sProp, dValues, nargs.today_start_iso,
                                  nargs.today_end_iso),
            upcoming |-> UpcomingFilter(dProp, sProp, dValues,
                                        nargs.today_end_iso, fEnd) ]
     /\ requests' = requests \o << Request("query", "overdue", "overdue", 0),
                                   Request("query", "today", "today", 0),
                                   Request("query", "upcoming", "upcoming", 0) >>
     /\ npc' = "query"

\* lines 49-55: the database request rejects, or answers with a non-success
\* status; db.properties || {} of an error body is {}
NotionSchemaFails ==
  /\ UNCHANGED <<gvars, ovars>>
  /\ npc = "schema"
  /\ \E rejects \in BOOLEAN, now \in NowValues :
       IF rejects \/ DbResponseThrows(FALSE)
         THEN /\ npc' = "error"
              /\ dbOk' = IF rejects THEN dbOk ELSE <<FALSE>>
              /\ UNCHANGED <<properties, dueProp, statusProp, doneValues, futureEnd,
                             filters, requests>>
         ELSE /\ dbOk' = <<FALSE>>
              /\ SchemaRead(<<>>, now)
  /\ UNCHANGED <<nargs, nenv, daysAhead, database, rejected, responses, data, converted,
                 result>>

\* lines 49-131: the database request answers with the schema
NotionSchemaResponse ==
  /\ UNCHANGED <<gvars, ovars>>
  /\ npc = "schema"
  /\ ~DbResponseThrows(TRUE)
  /\ dbOk' = <<TRUE>>
  /\ \E schema \in Schemas, now \in NowValues : SchemaRead(schema, now)
  /\ UNCHANGED <<nargs, nenv, daysAhead, database, rejected, responses, data, converted,
                 result>>

\* lines 133-167: the request of one window query rejects, or its answer is
\* not JSON: Promise.all rejects
NotionQueryThrows ==
  /\ UNCHANGED <<gvars, ovars>>
  /\ npc = "query"
  /\ \E w \in Range(Windows) : rejected' = {w}
  /\ npc' = "error"
  /\ UNCHANGED <<nargs, nenv, daysAhead, dbOk, properties, dueProp, statusProp,
                 doneValues, futureEnd, filters, requests, database, responses, data,
                 converted, result>>

WindowStatusChecked(ok) == ~ok

\* lines 133-167: overdueRes.ok, todayRes.ok and upcomingRes.ok are never read
WindowResponseThrows(ok) == FALSE

\* lines 133-246: the three queries are answered; every page starts its
\* pageToTask, which runs up to its related-page request if it makes one
NotionQueryResponse ==
  /\ UNCHANGED <<gvars, ovars>>
  /\ npc = "query"
  /\ \E db \in SubsetsUpTo(PagesOf(properties), MaxPages), failed \in FailSets :
       LET Answer(w) == IF w \in failed THEN <<>>
                        ELSE QueryResults(db, properties, filters[w])
           Start(page) == PageToTask(page, properties, dueProp, statusProp, doneValues)
       IN /\ database' = db
          /\ responses' = [ overdue |-> "overdue" \notin failed,
                            today |-> "today" \notin failed,
                            upcoming |-> "upcoming" \notin failed ]
          /\ IF \E w \in Range(Windows) : WindowResponseThrows(responses'[w])
               THEN /\ npc' = "error"
                    /\ UNCHANGED <<requests, data, converted, result>>
               ELSE /\ data' = [ overdue |-> Answer("overdue"), today |-> Answer("today"),
                                 upcoming |-> Answer("upcoming") ]
                    /\ converted' = [ overdue |-> MapSeq(Start, data'.overdue),
                                      today |-> MapSeq(Start, data'.today),
                                      upcoming |-> MapSeq(Start, data'.upcoming) ]
                    /\ requests' = requests \o PageRequests("overdue", converted'.overdue, 1)
                                             \o PageRequests("today", converted'.today, 1)
                                             \o PageRequests("upcoming", converted'.upcoming, 1)
                    /\ IF NoPending(converted')
                         THEN npc' = "done" /\ result' = ResultOf(converted')
                         ELSE npc' = "convert" /\ UNCHANGED result
  /\ UNCHANGED <<nargs, nenv, daysAhead, dbOk, properties, dueProp, statusProp,
                 doneValues, futureEnd, filters, rejected>>

\* the related-page request of the i-th page of window w is answered
LookupAnswered(w, i, response) ==
  /\ UNCHANGED <<gvars, ovars>>
  /\ npc = "convert"
  /\ i \in 1..Len(converted[w])
  /\ Pending(converted[w][i])
  /\ IF LookupAborts(response)
       THEN /\ npc' = "error"
            /\ UNCHANGED <<converted, result>>
       ELSE /\ converted' =
                 [converted EXCEPT ![w][i].task.area = AreaOf(response),
                                   ![w][i].answer =
                                      IF response = "titled" THEN "titled" ELSE "failed",
                                   ![w][i].nth = Completions(converted[w]) + 1]
            /\ IF NoPending(converted')
                 THEN npc' = "done" /\ result' = ResultOf(converted')
                 ELSE UNCHANGED <<npc, result>>
  /\ UNCHANGED <<nargs, nenv, daysAhead, dbOk, properties, dueProp, statusProp,
                 doneValues, futureEnd, filters, requests, database, rejected, responses,
                 data>>

\* lines 198-209: a related page answers with a title
NotionLookupTitled ==
  \E w \in Range(Windows), i \in 1..MaxPages : LookupAnswered(w, i, "titled")

\* lines 201-213: a related-page request throws, answers with a non-success
\* status, or answers with a page that has no title property
NotionLookupFails ==
  \E w \in Range(Windows), i \in 1..MaxPages :
    \E response \in RelatedResponses \ {"titled"} : LookupAnswered(w, i, response)

NotionNext ==
  \/ NotionStart
  \/ NotionSchemaFails
  \/ NotionSchemaResponse
  \/ NotionQueryThrows
  \/ NotionQueryResponse
  \/ NotionLookupTitled
  \/ NotionLookupFails

\* ======================================================================
\*                 the MCP endpoint: tools/list and tools/call
\* ======================================================================
\* the tools the README documents
DocumentedTools ==
  { "get_calendar_events", "get_gmail_messages", "get_notion_tasks",
    "generate_voice_script", "synthesize_speech", "post_to_slack",
    "upload_file_to_slack" }

\* the definition objects of the worker's tools, by their name field
getCalendarEventsTool == [name |-> "get_calendar_events"]

getGmailMessagesTool == [name |-> "get_gmail_messages"]

getNotionTasksTool == [name |-> "get_notion_tasks"]

generateVoiceScriptTool == [name |-> "generate_voice_script"]

synthesizeSpeechTool == [name |-> "synthesize_speech"]

postToSlackTool == [name |-> "post_to_slack"]

uploadFileToSlackTool == [name |-> "upload_file_to_slack"]

\* the names in result.tools of the Vercel endpoint, in the order listed
RouteTools ==
  << "get_calendar_events", "get_gmail_messages", "get_notion_tasks",
     "generate_voice_script", "synthesize_speech", "post_to_slack",
     "upload_file_to_slack" >>

\* the names in result.tools of the worker, in the order listed
WorkerTools ==
  << getCalendarEventsTool.name, getGmailMessagesTool.name, getNotionTasksTool.name,
     generateVoiceScriptTool.name, synthesizeSpeechTool.name, postToSlackTool.name,
     uploadFileToSlackTool.name >>

ListedTools(v) == IF v = "vercel" THEN RouteTools ELSE WorkerTools

\* a switch whose last case was left out
SwitchWithoutUpload(toolName) ==
  CASE toolName = "get_calendar_events" -> "getCalendarEvents"
    [] toolName = "get_gmail_messages" -> "getGmailMessages"
    [] toolName = "get_notion_tasks" -> "getNotionTasks"
    [] toolName = "generate_voice_script" -> "generateVoiceScript"
    [] toolName = "synthesize_speech" -> "synthesizeSpeech"
    [] toolName = "post_to_slack" -> "postToSlack"
    [] OTHER -> Undef

\* switch (toolName) of the Vercel endpoint: the function awaited, Undef = default
RouteSwitch(toolName) ==
  CASE toolName = "get_calendar_events" -> "getCalendarEvents"
    [] toolName = "get_gmail_messages" -> "getGmailMessages"
    [] toolName = "get_notion_tasks" -> "getNotionTasks"
    [] toolName = "generate_voice_script" -> "generateVoiceScript"
    [] toolName = "synthesize_speech" -> "synthesizeSpeech"
    [] toolName = "post_to_slack" -> "postToSlack"
    [] toolName = "upload_file_to_slack" -> "uploadFileToSlack"
    [] OTHER -> Undef

\* switch (toolName) of the worker: the handler awaited, Undef = default
WorkerSwitch(toolName) ==
  CASE toolName = "get_calendar_events" -> "getCalendarEventsTool.handler"
    [] toolName = "get_gmail_messages" -> "getGmailMessagesTool.handler"
    [] toolName = "get_notion_tasks" -> "getNotionTasksTool.handler"
    [] toolName = "generate_voice_script" -> "generateVoiceScriptTool.handler"
    [] toolName = "synthesize_speech" -> "synthesizeSpeechTool.handler"
    [] toolName = "post_to_slack" -> "postToSlackTool.handler"
    [] toolName = "upload_file_to_slack" -> "uploadFileToSlackTool.handler"
    [] OTHER -> Undef

Switch(v, toolName) == IF v = "vercel" THEN RouteSwitch(toolName) ELSE WorkerSwitch(toolName)

\* the HTTP methods that reach the endpoint's handler
HttpMethods(v) ==
  IF v = "vercel" THEN {"GET", "POST", "DELETE"} ELSE {"OPTIONS", "GET", "POST"}

\* the JSON-RPC methods a client sends (Undef = no method member)
RpcMethods == {"tools/list", "tools/call", "resources/list", Undef}

\* the tool names a client asks for (Undef = no name member)
RequestedNames == DocumentedTools \cup {"get_weather", "Upload_File_To_Slack", Undef}

\* params: <<>> = no params member; arguments: <<>> = no arguments member
RequestedParams ==
  {<<>>} \cup { <<[name |-> n, arguments |-> a]>> : n \in RequestedNames,
                                                    a \in {<<>>, <<"arguments">>} }

Bodies == [method : RpcMethods, params : RequestedParams]

\* the body request.json().catch(() => ({})) yields for a body that is not JSON
EmptyBody == [method |-> Undef, params |-> <<>>]

\* no get_gmail_messages call is in progress
GmailIdle ==
  /\ gpc = "idle" /\ gargs = <<>> /\ genv = <<>>
  /\ importantSenders = <<>> /\ maxResults = 0 /\ listOk = <<>> /\ messageIds = <<>>
  /\ idx = 0 /\ fetches = <<>> /\ messageMetadata = <<>> /\ uniqueThreads = <<>>
  /\ important = <<>> /\ sorted = <<>>

\* no get_notion_tasks call is in progress
NotionIdle ==
  /\ npc = "idle" /\ nargs = <<>> /\ nenv = <<>>
  /\ daysAhead = 0 /\ dbOk = <<>> /\ properties = <<>> /\ dueProp = Undef
  /\ statusProp = Undef /\ doneValues = <<>> /\ futureEnd = 0 /\ filters = <<>>
  /\ database = {} /\ requests = <<>> /\ rejected = {} /\ responses = <<>>
  /\ data = <<>> /\ converted = <<>> /\ result = <<>>

DispatchInit ==
  /\ variant \in {"vercel", "worker"}
  /\ dpc = "request"
  /\ httpMethod \in HttpMethods(variant)
  /\ rawBody \in {<<>>} \cup { <<b>> : b \in Bodies }
  /\ body = <<>>
  /\ called = <<>>
  /\ returned = NoResponse
  /\ GmailIdle /\ NotionIdle /\ ConcurrentIdle /\ ExtrasIdle

\* return new Response(...)
Respond(status, kind, code, tools) ==
  /\ returned' = [status |-> status, kind |-> kind, code |-> code, tools |-> tools]
  /\ dpc' = "responded"

\* params?.name / params.name
ToolName(b) == IF b.params = <<>> THEN Undef ELSE b.params[1].name

\* params?.arguments || {}
ToolArgs(b) ==
  IF b.params = <<>> \/ b.params[1].arguments = <<>> THEN "{}"
  ELSE b.params[1].arguments[1]

\* the code of the catch block's error body
InternalErrorCode(v) == IF v = "vercel" THEN 0 - 32603 ELSE 0 - 1

\* the CORS preflight is answered before the body is read
DispatchOptions ==
  /\ dpc = "request"
  /\ httpMethod = "OPTIONS"
  /\ Respond(204, "empty", 0, <<>>)
  /\ UNCHANGED <<variant, httpMethod, rawBody, body, called>>
  /\ UNCHANGED <<gvars, nvars, cvars, xvars>>

\* the worker answers only POST
DispatchNotAllowed ==
  /\ dpc = "request"
  /\ variant = "worker"
  /\ httpMethod \notin {"OPTIONS", "POST"}
  /\ Respond(405, "text", 0, <<>>)
  /\ UNCHANGED <<variant, httpMethod, rawBody, body, called>>
  /\ UNCHANGED <<gvars, nvars, cvars, xvars>>

\* await request.json(): a rejection is replaced by {} on Vercel and caught
\* by the catch block on the worker
DispatchParse ==
  /\ dpc = "request"
  /\ httpMethod # "OPTIONS"
  /\ variant = "worker" => httpMethod = "POST"
  /\ IF rawBody # <<>> THEN body' = rawBody /\ dpc' = "parsed" /\ UNCHANGED returned
     ELSE IF variant = "vercel"
          THEN body' = <<EmptyBody>> /\ dpc' = "parsed" /\ UNCHANGED returned
          ELSE Respond(500, "error", InternalErrorCode(variant), <<>>) /\ UNCHANGED body
  /\ UNCHANGED <<variant, httpMethod, rawBody, called>>
  /\ UNCHANGED <<gvars, nvars, cvars, xvars>>

\* method === 'tools/list'
DispatchToolsList ==
  /\ dpc = "parsed"
  /\ body[1].method = "tools/list"
  /\ Respond(200, "result", 0, ListedTools(variant))
  /\ UNCHANGED <<variant, httpMethod, rawBody, body, called>>
  /\ UNCHANGED <<gvars, nvars, cvars, xvars>>

\* the worker reads params.name of a body without params: a TypeError, caught
DispatchParamsMissing ==
  /\ dpc = "parsed"
  /\ body[1].method = "tools/call"
  /\ variant = "worker" /\ body[1].params = <<>>
  /\ Respond(500, "error", InternalErrorCode(variant), <<>>)
  /\ UNCHANGED <<variant, httpMethod, rawBody, body, called>>
  /\ UNCHANGED <<gvars, nvars, cvars, xvars>>

\* method === 'tools/call' and a case of the switch matches: the handler is awaited
DispatchToolsCall ==
  /\ dpc = "parsed"
  /\ body[1].method = "tools/call"
  /\ ~(variant = "worker" /\ body[1].params = <<>>)
  /\ Switch(variant, ToolName(body[1])) # Undef
  /\ called' = << [handler |-> Switch(variant, ToolName(body[1])),
                   toolArgs |-> ToolArgs(body[1])] >>
  /\ dpc' = "called"
  /\ UNCHANGED <<variant, httpMethod, rawBody, body, returned>>
  /\ UNCHANGED <<gvars, nvars, cvars, xvars>>

\* method === 'tools/call' and no case matches: the default branch
DispatchUnknownTool ==
  /\ dpc = "parsed"
  /\ body[1].method = "tools/call"
  /\ ~(variant = "worker" /\ body[1].params = <<>>)
  /\ Switch(variant, ToolName(body[1])) = Undef
  /\ Respond(404, "unknown tool", 0 - 32601, <<>>)
  /\ UNCHANGED <<variant, httpMethod, rawBody, body, called>>
  /\ UNCHANGED <<gvars, nvars, cvars, xvars>>

\* any other method
DispatchUnknownMethod ==
  /\ dpc = "parsed"
  /\ body[1].method \notin {"tools/list", "tools/call"}
  /\ Respond(400, "unknown method", 0, <<>>)
  /\ UNCHANGED <<variant, httpMethod, rawBody, body, called>>
  /\ UNCHANGED <<gvars, nvars, cvars, xvars>>

\* the awaited handler resolves: its value is returned as { result }
HandlerReturns ==
  /\ dpc = "called"
  /\ Respond(200, "result", 0, <<>>)
  /\ UNCHANGED <<variant, httpMethod, rawBody, body, called>>
  /\ UNCHANGED <<gvars, nvars, cvars, xvars>>

\* the awaited handler rejects: the catch block answers 500
HandlerThrows ==
  /\ dpc = "called"
  /\ Respond(500, "error", InternalErrorCode(variant), <<>>)
  /\ UNCHANGED <<variant, httpMethod, rawBody, body, called>>
  /\ UNCHANGED <<gvars, nvars, cvars, xvars>>

DispatchNext ==
  \/ DispatchOptions
  \/ DispatchNotAllowed
  \/ DispatchParse
  \/ DispatchToolsList
  \/ DispatchParamsMissing
  \/ DispatchToolsCall
  \/ DispatchUnknownTool
  \/ DispatchUnknownMethod
  \/ HandlerReturns
  \/ HandlerThrows

\* ======================================================================
\*           two invocations of one tool handler in one process
\* ======================================================================
\* the invocations that run concurrently
Invocations == {1, 2}

\* one scope for the whole module: every invocation uses the same objects
ModuleScope(i) == 1

\* the scope in which an invocation's const and let declarations are
\* evaluated: they are inside the handler's body, so each invocation has its own
ScopeOf(i) == i

\* the arguments and the environment of the concurrent get_gmail_messages calls
ConcGmailArgs ==
  { [important_senders |-> <<>>, max_results |-> <<1>>],
    [important_senders |-> << <<"b@x.com">> >>, max_results |-> <<>>] }

ConcGmailEnv == [IMPORTANT_SENDERS |-> <<>>, GMAIL_MAX |-> <<>>]

\* the most messages a concurrent list request answers with
MaxConcMsgs == 2

\* the metadata answers of the provider to the concurrent calls
ConcMsgResponses ==
  { [threadId |-> "m1", internalDate |-> <<100>>,
     from |-> [angle |-> FALSE, name |-> "", addr |-> "a@x.com"]],
    [threadId |-> Undef, internalDate |-> <<200>>,
     from |-> [angle |-> TRUE, name |-> "Bob", addr |-> "B@x.com"]] }

\* the arguments of the concurrent get_notion_tasks calls
ConcNotionArgs ==
  { [api_key |-> <<"secret">>, database_id |-> <<"db1">>, today_start_iso |-> 2,
     today_end_iso |-> 3, days_ahead |-> <<>>] }

\* the pages of the databases the concurrent calls query: all overdue
ConcPages(schema) == { p \in PagesOf(schema) : p.due = <<1>> }

\* the answers to the related-page requests of a concurrent call
ConcRelatedResponses == {"titled", "notOk"}

\* an invocation of get_gmail_messages before it starts: its position, its
\* inputs, the answers it has received and its result
GmailCall(a, e) ==
  [tool |-> "gmail", pc |-> "start", args |-> a, env |-> e,
   listed |-> <<>>, fetched |-> <<>>, result |-> <<>>]

\* an invocation of get_notion_tasks before it starts; sent holds the filters
\* of its query requests, converted its pageToTask calls
NotionCall(a, e) ==
  [tool |-> "notion", pc |-> "start", args |-> a, env |-> e,
   schema |-> <<>>, now |-> 0, sent |-> <<>>, database |-> {}, lookup |-> "",
   converted |-> EmptyWindows, result |-> EmptyWindows]

\* the variables declared in the body of the get_gmail_messages handler
GmailLocals(senders, limit, ids, at, meta) ==
  [importantSenders |-> senders, maxResults |-> limit, messageIds |-> ids,
   idx |-> at, messageMetadata |-> meta]

\* the variables declared in the body of getNotionTasks
NotionLocals(days, props, dProp, sProp, dValues) ==
  [daysAhead |-> days, properties |-> props, dueProp |-> dProp, statusProp |-> sProp,
   doneValues |-> dValues]

ConcurrentInit ==
  /\ \/ /\ calls \in [Invocations -> { GmailCall(a, ConcGmailEnv) : a \in ConcGmailArgs }]
        /\ heap = [s \in Invocations |-> GmailLocals(<<>>, 0, <<>>, 0, <<>>)]
     \/ /\ calls \in [Invocations -> { NotionCall(a, e) : a \in ConcNotionArgs,
                                                         e \in NotionEnvValues }]
        /\ heap = [s \in Invocations |-> NotionLocals(0, <<>>, Undef, Undef, <<>>)]
  /\ overlapped = FALSE
  /\ GmailIdle /\ NotionIdle /\ DispatchIdle /\ ExtrasIdle

\* an invocation is between its first await and its return
InFlight(c) == c.pc \notin {"start", "done"}

\* invocation i resumes at an await point, possibly while another is in flight
Resumes(i) ==
  overlapped' = (overlapped \/ \E j \in Invocations \ {i} : InFlight(calls[j]))

\* the metadata Map an invocation builds from the ids listed to it and the
\* answers to its metadata requests (<<>> = a failed request), in loop order
RECURSIVE ReplayMetadata(_, _, _)
ReplayMetadata(ids, answers, meta) ==
  IF ids = <<>> \/ answers = <<>> THEN meta
  ELSE ReplayMetadata(Tail(ids), Tail(answers),
         IF Head(answers) = <<>> THEN meta
         ELSE MapSet(meta, Head(ids), MetadataOf(Head(ids), Head(answers)[1])))

\* lines 121-157 on the objects of a scope: the handler's return value
GmailReturn(locals) ==
  Rank(UniqueThreads(locals.messageMetadata), locals.importantSenders,
       locals.maxResults, locals.messageMetadata)

\* lines 40-45: the arguments are resolved and the access token is awaited
ConcGmailStartOf(i) ==
  /\ calls[i].tool = "gmail" /\ calls[i].pc = "start"
  /\ heap' = [heap EXCEPT ![ScopeOf(i)] =
                GmailLocals(ResolveImportantSenders(calls[i].args, calls[i].env),
                            ResolveMaxResults(calls[i].args, calls[i].env),
                            <<>>, 0, <<>>)]
  /\ calls' = [calls EXCEPT ![i].pc = "list"]

\* lines 52-67: the list request answers; messageIds and a new Map are bound
ConcGmailListOf(i) ==
  /\ calls[i].tool = "gmail" /\ calls[i].pc = "list"
  /\ \E n \in 0..MaxConcMsgs :
       LET ids == SubSeq(MsgIdPool, 1, n)
           locals == [heap[ScopeOf(i)] EXCEPT !.messageIds = ids, !.idx = 1,
                                              !.messageMetadata = <<>>]
       IN /\ heap' = [heap EXCEPT ![ScopeOf(i)] = locals]
          /\ calls' = [calls EXCEPT ![i].listed = ids,
                                    ![i].pc = IF n = 0 THEN "done" ELSE "fetch",
                                    ![i].result = IF n = 0 THEN GmailReturn(locals)
                                                  ELSE <<>>]

\* lines 69-157: the metadata request of the loop's current message answers
\* (answer = <<msg>>) or fails (answer = <<>>); after the last message the
\* rest of the handler runs to its return
ConcGmailFetchOf(i, answer) ==
  /\ calls[i].tool = "gmail" /\ calls[i].pc = "fetch"
  /\ LET old == heap[ScopeOf(i)]
         inLoop == old.idx >= 1 /\ old.idx <= Len(old.messageIds)
         meta == IF inLoop /\ answer # <<>>
                   THEN MapSet(old.messageMetadata, old.messageIds[old.idx],
                               MetadataOf(old.messageIds[old.idx], answer[1]))
                   ELSE old.messageMetadata
         locals == [old EXCEPT !.messageMetadata = meta, !.idx = old.idx + 1]
         last == locals.idx > Len(locals.messageIds)
     IN /\ heap' = [heap EXCEPT ![ScopeOf(i)] = locals]
        /\ calls' = [calls EXCEPT ![i].fetched = Append(calls[i].fetched, answer),
                                  ![i].pc = IF last THEN "done" ELSE "fetch",
                                  ![i].result = IF last THEN GmailReturn(locals)
                                                ELSE <<>>]

\* the three filters built from the variables of a scope
FiltersOf(locals, a, now) ==
  [ overdue |-> OverdueFilter(locals.dueProp, locals.statusProp, locals.doneValues,
                              a.today_start_iso),
    today |-> TodayFilter(locals.dueProp, locals.statusProp, locals.doneValues,
                          a.today_start_iso, a.today_end_iso),
    upcoming |-> UpcomingFilter(locals.dueProp, locals.statusProp, locals.doneValues,
                                a.today_end_iso,
                                FutureEnd(now, a.today_end_iso, locals.daysAhead)) ]

\* the page a task was converted from
PageOfId(id) == [due |-> id[1], status |-> id[2], relation |-> id[3]]

\* lines 196-240: a pageToTask call continues after its related-page request:
\* area is set and the done flag is read from statusProp and doneValues
Continue(c, schema, locals, response) ==
  IF c.lookup = "" THEN c
  ELSE [c EXCEPT !.answer = IF response = "titled" THEN "titled" ELSE "failed",
                 !.task.area = AreaOf(response),
                 !.task.done = IsDone(PageProps(schema, PageOfId(c.task.id)),
                                      locals.statusProp, locals.doneValues)]

\* lines 30-51: the arguments are resolved and the database request is issued
ConcNotionStartOf(i) ==
  /\ calls[i].tool = "notion" /\ calls[i].pc = "start"
  /\ heap' = [heap EXCEPT ![ScopeOf(i)] =
                NotionLocals(ResolveDaysAhead(calls[i].args, calls[i].env),
                             <<>>, Undef, Undef, <<>>)]
  /\ calls' = [calls EXCEPT ![i].pc = "schema"]

\* lines 57-167: the schema answers; properties, dueProp, statusProp and
\* doneValues are bound and the three queries are sent with their filters
ConcNotionSchemaOf(i, schema, now) ==
  /\ calls[i].tool = "notion" /\ calls[i].pc = "schema"
  /\ LET locals == [heap[ScopeOf(i)] EXCEPT
                      !.properties = schema,
                      !.dueProp = ResolveDueProp(schema),
                      !.statusProp = ResolveStatusProp(schema),
                      !.doneValues = ResolveDoneValues(calls[i].env)]
     IN /\ heap' = [heap EXCEPT ![ScopeOf(i)] = locals]
        /\ calls' = [calls EXCEPT ![i].schema = schema, ![i].now = now,
                                  ![i].sent = FiltersOf(locals, calls[i].args, now),
                                  ![i].pc = "query"]

\* lines 133-246: the three queries answer; every page starts its pageToTask,
\* which reads dueProp and runs up to its related-page request if it makes one
ConcNotionQueryOf(i, db) ==
  /\ calls[i].tool = "notion" /\ calls[i].pc = "query"
  /\ LET locals == heap[ScopeOf(i)]
         Start(page) == PageToTask(page, calls[i].schema, locals.dueProp,
                                   locals.statusProp, locals.doneValues)
         Answer(w) == MapSeq(Start, QueryResults(db, calls[i].schema, calls[i].sent[w]))
         conv == [overdue |-> Answer("overdue"), today |-> Answer("today"),
                  upcoming |-> Answer("upcoming")]
     IN calls' = [calls EXCEPT ![i].database = db,
                               ![i].converted = conv,
                               ![i].pc = IF NoPending(conv) THEN "done" ELSE "convert",
                               ![i].result = IF NoPending(conv) THEN ResultOf(conv)
                                             ELSE EmptyWindows]
  /\ UNCHANGED heap

\* lines 196-255: the related-page requests of the invocation are answered,
\* its pageToTask calls continue and the result is built
ConcNotionLookupOf(i, response) ==
  /\ calls[i].tool = "notion" /\ calls[i].pc = "convert"
  /\ LET locals == heap[ScopeOf(i)]
         Finish(c) == Continue(c, calls[i].schema, locals, response)
         conv == [overdue |-> MapSeq(Finish, calls[i].converted.overdue),
                  today |-> MapSeq(Finish, calls[i].converted.today),
                  upcoming |-> MapSeq(Finish, calls[i].converted.upcoming)]
     IN calls' = [calls EXCEPT ![i].lookup = response,
                               ![i].converted = conv,
                               ![i].pc = "done",
                               ![i].result = ResultOf(conv)]
  /\ UNCHANGED heap

ConcGmailStart ==
  /\ \E i \in Invocations : ConcGmailStartOf(i) /\ Resumes(i)
  /\ UNCHANGED <<gvars, nvars, dvars, xvars>>

ConcGmailList ==
  /\ \E i \in Invocations : ConcGmailListOf(i) /\ Resumes(i)
  /\ UNCHANGED <<gvars, nvars, dvars, xvars>>

ConcGmailFetch ==
  /\ \E i \in Invocations, msg \in ConcMsgResponses : ConcGmailFetchOf(i, <<msg>>) /\ Resumes(i)
  /\ UNCHANGED <<gvars, nvars, dvars, xvars>>

ConcGmailFetchSkipped ==
  /\ \E i \in Invocations : ConcGmailFetchOf(i, <<>>) /\ Resumes(i)
  /\ UNCHANGED <<gvars, nvars, dvars, xvars>>

ConcNotionStart ==
  /\ \E i \in Invocations : ConcNotionStartOf(i) /\ Resumes(i)
  /\ UNCHANGED <<gvars, nvars, dvars, xvars>>

ConcNotionSchema ==
  /\ \E i \in Invocations, schema \in Schemas, now \in NowValues :
       ConcNotionSchemaOf(i, schema, now) /\ Resumes(i)
  /\ UNCHANGED <<gvars, nvars, dvars, xvars>>

ConcNotionQuery ==
  /\ \E i \in Invocations :
       /\ calls[i].tool = "notion" /\ calls[i].pc = "query"
       /\ \E db \in SubsetsUpTo(ConcPages(calls[i].schema), 1) :
            ConcNotionQueryOf(i, db) /\ Resumes(i)
  /\ UNCHANGED <<gvars, nvars, dvars, xvars>>

ConcNotionLookup ==
  /\ \E i \in Invocations, response \in ConcRelatedResponses :
       ConcNotionLookupOf(i, response) /\ Resumes(i)
  /\ UNCHANGED <<gvars, nvars, dvars, xvars>>

ConcurrentNext ==
  \/ ConcGmailStart
  \/ ConcGmailList
  \/ ConcGmailFetch
  \/ ConcGmailFetchSkipped
  \/ ConcNotionStart
  \/ ConcNotionSchema
  \/ ConcNotionQuery
  \/ ConcNotionLookup

\* ======================================================================
\*                  buildFilter and the provider's reading of it
\* ======================================================================
\* the most done values a NOTION_DONE_VALUES configures
MaxDone == 2

\* the option names a status property has
OptionNames == {"Done", "Complete", "Archived", "In Progress"}

\* the Sets doneValues can be: no, one or several distinct names, in
\* insertion order
RECURSIVE DistinctSeqs(_, _)
DistinctSeqs(S, n) ==
  IF n = 0 THEN { <<>> }
  ELSE LET shorter == DistinctSeqs(S, n - 1)
       IN shorter \cup { Append(q, x) : q \in shorter, x \in S }

DoneValueSets ==
  { q \in DistinctSeqs(OptionNames \ {"In Progress"}, MaxDone) : Distinct(q) = q }

\* the date filters getNotionTasks passes to buildFilter, for a day [2, 3]
\* and a horizon ending at 5
DateFilterArgs ==
  { DateCond("Due", "before", 2),
    Compound("and", << DateCond("Due", "on_or_after", 2),
                       DateCond("Due", "on_or_before", 3) >>),
    Compound("and", << DateCond("Due", "after", 3), DateCond("Due", "before", 5) >>) }

\* the properties of a page of a database with a due date and a status
\* property named Done
FilterPageProps(due, option) ==
  << [name |-> "Due", type |-> "date", date |-> <<due>>, option |-> "",
      relation |-> <<>>],
     [name |-> "Done", type |-> "status", date |-> <<>>, option |-> option,
      relation |-> <<>>] >>

FilterInit ==
  /\ fpc = "input"
  /\ fdateFilter \in DateFilterArgs
  /\ fstatusProp \in {Undef, "Done"}
  /\ fdoneValues \in DoneValueSets
  /\ built = <<>>
  /\ evaluated = <<>>
  /\ GmailIdle /\ NotionIdle /\ DispatchIdle /\ ConcurrentIdle
  /\ BucketIdle /\ SlackIdle /\ AuthIdle

\* buildFilter(dateFilter) returns
FilterBuild ==
  /\ fpc = "input"
  /\ built' = <<BuildFilter(fdateFilter, fstatusProp, fdoneValues)>>
  /\ fpc' = "built"
  /\ UNCHANGED <<fdateFilter, fstatusProp, fdoneValues, evaluated>>
  /\ UNCHANGED <<gvars, nvars, dvars, cvars, bvars, svars, avars>>

\* the provider evaluates the filter on a page
FilterEvaluate ==
  /\ fpc = "built"
  /\ \E due \in 1..MaxDue, option \in OptionNames :
       evaluated' = << [due |-> due, option |-> option,
                        admitted |-> EvalFilter(built[1], FilterPageProps(due, option))] >>
  /\ fpc' = "evaluated"
  /\ UNCHANGED <<fdateFilter, fstatusProp, fdoneValues, built>>
  /\ UNCHANGED <<gvars, nvars, dvars, cvars, bvars, svars, avars>>

FilterNext ==
  \/ FilterBuild
  \/ FilterEvaluate

\* ======================================================================
\*          from the answers of the window queries to the result
\* ======================================================================
\* the schema, the day and the horizon of the call whose answers are grouped
BucketSchema ==
  << [name |-> "Name", type |-> "title"], [name |-> "Due", type |-> "date"],
     [name |-> "Done", type |-> "status"] >>

BucketDay == [start |-> 2, end |-> 3, futureEnd |-> 5]

\* the pages a window query can answer with: any page of the database,
\* whether or not the filter sent with the query admits it
AnsweredPages == PagesOf(BucketSchema)

\* the answers of one window query: no page or one page
WindowAnswers == { <<>> } \cup { <<p>> : p \in AnsweredPages }

\* the answers of the windows exchanged: overdue pages under today
GroupSwapped(ans) ==
  LET Start(page) == PageToTask(page, BucketSchema, "Due", "Done", <<"Done">>)
  IN ResultOf([overdue |-> MapSeq(Start, ans.today),
               today |-> MapSeq(Start, ans.overdue),
               upcoming |-> MapSeq(Start, ans.upcoming)])

\* lines 242-255: each window's answer is converted page by page, completed
\* tasks are removed, and the three lists are returned under their windows
GroupWindows(ans) ==
  LET Start(page) == PageToTask(page, BucketSchema, "Due", "Done", <<"Done">>)
  IN ResultOf([overdue |-> MapSeq(Start, ans.overdue),
               today |-> MapSeq(Start, ans.today),
               upcoming |-> MapSeq(Start, ans.upcoming)])

BucketInit ==
  /\ bpc = "answered"
  /\ answered \in [overdue : WindowAnswers, today : WindowAnswers, upcoming : WindowAnswers]
  /\ grouped = <<>>
  /\ GmailIdle /\ NotionIdle /\ DispatchIdle /\ ConcurrentIdle
  /\ FilterIdle /\ SlackIdle /\ AuthIdle

\* lines 242-255: the result is built from the three answers
BucketGroup ==
  /\ bpc = "answered"
  /\ grouped' = <<GroupWindows(answered)>>
  /\ bpc' = "done"
  /\ UNCHANGED answered
  /\ UNCHANGED <<gvars, nvars, dvars, cvars, fvars, svars, avars>>

BucketNext == BucketGroup

\* ======================================================================
\*                             post_to_slack
\* ======================================================================
\* a string is a sequence of characters; <<>> is the empty string

\* a supplied, non-empty string
Truthy(opt) == opt # <<>> /\ opt[1] # <<>>

\* a || b
OrElse(a, b) == IF Truthy(a) THEN a ELSE b

SlackUserIds == { <<>>, << <<>> >>, << <<"U", "1">> >> }

SlackChannels == { <<>>, << <<"#">> >>, << <<"#", "g">> >>, << <<"C", "9">> >> }

SlackArgs == [ user_id : SlackUserIds, channel : SlackChannels ]

SlackEnvs ==
  [ SLACK_BOT_TOKEN : { <<>>, << <<>> >>, << <<"x">> >> },
    SLACK_USER_ID : { <<>>, << <<"U", "2">> >> },
    SLACK_FALLBACK_CHANNEL : { <<>>, << <<"#", "f">> >> } ]

\* the answers of conversations.open: the request throws, a non-success
\* status, a body with ok false, a body with ok true and no channel id, a body
\* with ok true and a channel id
DmResponses == { "throws", "status", "not ok", "no id", "opened" }

\* dmData.channel.id of an opened conversation
DmChannel == <<"D", "1">>

\* the answers of chat.postMessage
PostResponses == { "throws", "not ok", "ok" }

\* line 34
SlackUserId(a, e) == OrElse(a.user_id, e.SLACK_USER_ID)

\* line 35
SlackChannel(a, e) == OrElse(a.channel, e.SLACK_FALLBACK_CHANNEL)

\* line 64: channel.startsWith("#") ? channel.slice(1) : channel
StripHash(c) == IF Len(c) > 0 /\ Head(c) = "#" THEN Tail(c) ELSE c

\* lines 51-55: the channel id a conversations.open answer gives
DmChannelOf(response) == IF response = "opened" THEN <<DmChannel>> ELSE <<>>

\* the configured channel taken whenever there is one
ResolveConfiguredFirst(cid, channel) ==
  IF Truthy(channel) THEN <<StripHash(channel[1])>> ELSE cid

\* lines 63-65: channelId after the fallback
ResolveChannel(cid, channel) ==
  IF ~Truthy(cid) /\ Truthy(channel) THEN <<StripHash(channel[1])>> ELSE cid

SlackRequest(api, to) == [ api |-> api, to |-> to, answer |-> "" ]

SlackInit ==
  /\ spc = "start"
  /\ sargs \in SlackArgs
  /\ senv \in SlackEnvs
  /\ channelId = <<>>
  /\ slackRequests = <<>>
  /\ sreturned = <<>>
  /\ GmailIdle /\ NotionIdle /\ DispatchIdle /\ ConcurrentIdle
  /\ FilterIdle /\ BucketIdle /\ AuthIdle

\* lines 97-99: what is thrown is thrown again
SlackThrows(reqs) ==
  /\ spc' = "error"
  /\ slackRequests' = reqs
  /\ sreturned' = <<[success |-> FALSE, channel |-> <<>>]>>

\* lines 63-81: the fallback, the check of channelId, and the post request
SlackResolve(cid, reqs) ==
  LET resolved == ResolveChannel(cid, SlackChannel(sargs, senv))
  IN /\ channelId' = resolved
     /\ IF ~Truthy(resolved)
          THEN SlackThrows(reqs)
          ELSE /\ spc' = "post"
               /\ slackRequests' = Append(reqs, SlackRequest("chat.postMessage", resolved[1]))
               /\ UNCHANGED sreturned

\* lines 28-31: no bot token
SlackNoToken ==
  /\ UNCHANGED <<gvars, nvars, dvars, cvars, fvars, bvars, avars>>
  /\ spc = "start"
  /\ ~Truthy(senv.SLACK_BOT_TOKEN)
  /\ SlackThrows(slackRequests)
  /\ UNCHANGED <<sargs, senv, channelId>>

\* lines 28-49: a user id is available, conversations.open is requested
SlackOpenDm ==
  /\ UNCHANGED <<gvars, nvars, dvars, cvars, fvars, bvars, avars>>
  /\ spc = "start"
  /\ Truthy(senv.SLACK_BOT_TOKEN)
  /\ Truthy(SlackUserId(sargs, senv))
  /\ spc' = "dm"
  /\ slackRequests' = << SlackRequest("conversations.open", SlackUserId(sargs, senv)[1]) >>
  /\ UNCHANGED <<sargs, senv, channelId, sreturned>>

\* lines 28-81: no user id is available, the configured channel is the only one
SlackNoUser ==
  /\ UNCHANGED <<gvars, nvars, dvars, cvars, fvars, bvars, avars>>
  /\ spc = "start"
  /\ Truthy(senv.SLACK_BOT_TOKEN)
  /\ ~Truthy(SlackUserId(sargs, senv))
  /\ SlackResolve(<<>>, slackRequests)
  /\ UNCHANGED <<sargs, senv>>

\* lines 42-81: conversations.open is answered
SlackDmAnswered ==
  /\ UNCHANGED <<gvars, nvars, dvars, cvars, fvars, bvars, avars>>
  /\ spc = "dm"
  /\ \E response \in DmResponses :
       SlackResolve(DmChannelOf(response),
                    [slackRequests EXCEPT ![Len(slackRequests)].answer = response])
  /\ UNCHANGED <<sargs, senv>>

\* lines 83-96: chat.postMessage answers with ok
SlackPosted ==
  /\ UNCHANGED <<gvars, nvars, dvars, cvars, fvars, bvars, avars>>
  /\ spc = "post"
  /\ spc' = "done"
  /\ slackRequests' = [slackRequests EXCEPT ![Len(slackRequests)].answer = "ok"]
  /\ sreturned' = <<[success |-> TRUE, channel |-> channelId]>>
  /\ UNCHANGED <<sargs, senv, channelId>>

\* lines 71-87: chat.postMessage throws or answers without ok
SlackPostFails ==
  /\ UNCHANGED <<gvars, nvars, dvars, cvars, fvars, bvars, avars>>
  /\ spc = "post"
  /\ \E response \in PostResponses \ {"ok"} :
       SlackThrows([slackRequests EXCEPT ![Len(slackRequests)].answer = response])
  /\ UNCHANGED <<sargs, senv, channelId>>

SlackNext ==
  \/ SlackNoToken
  \/ SlackOpenDm
  \/ SlackNoUser
  \/ SlackDmAnswered
  \/ SlackPosted
  \/ SlackPostFails

\* ======================================================================
\*                          getGoogleAccessToken
\* ======================================================================
\* the two deployments: lib/tools/google-auth.ts and src/tools/google-auth.ts
Deployments == { "vercel", "worker" }

\* env: GOOGLE_TOKEN_BASE64 is set; GOOGLE_OAUTH_CLIENT_ID and
\* GOOGLE_OAUTH_CLIENT_SECRET are set
AuthEnvs == [ GOOGLE_TOKEN_BASE64 : BOOLEAN, client : BOOLEAN ]

\* the decoded token.json: access_token and token (<<>> = absent), the expiry
\* it carries (expiry_date or expiry, passed or ahead, or none), refresh_token,
\* and whether it carries client_id and client_secret
TokenJsons ==
  [ access_token : { <<>>, <<"">>, <<"stored">> },
    token : { <<>>, <<"legacy">> },
    expiry : { "none", "expiry_date passed", "expiry_date ahead", "expiry passed",
               "expiry ahead" },
    refresh_token : { <<>>, <<"refresh">> },
    client : BOOLEAN ]

\* the answers of the refresh request: the request throws; a non-success
\* status with an error body; a non-success status with a body of neither
\* error nor access_token; success with an error body; success with neither;
\* success with an access_token
RefreshResponses == { "throws", "status error", "status bare", "error", "bare", "token" }

\* refreshed.access_token of a successful refresh
RefreshedToken == "fresh"

\* a present, non-empty string
Set(opt) == opt # <<>> /\ opt[1] # ""

\* vercel line 18: tokenJson.access_token || tokenJson.token; worker line 30:
\* tokenJson.access_token
AccessTokenOf(d, tj) ==
  IF d = "vercel"
    THEN (IF Set(tj.access_token) THEN tj.access_token[1]
          ELSE IF tj.token # <<>> THEN tj.token[1] ELSE Undef)
    ELSE (IF tj.access_token # <<>> THEN tj.access_token[1] ELSE Undef)

\* vercel lines 22-29: expiry_date, else expiry; worker line 12: expiry_date
IsExpired(d, tj) ==
  \/ tj.expiry = "expiry_date passed"
  \/ d = "vercel" /\ tj.expiry = "expiry passed"

\* vercel line 33; worker line 12
NeedsRefresh(d, tj) ==
  IF d = "vercel"
    THEN Set(tj.refresh_token) /\ (IsExpired(d, tj) \/ AccessTokenOf(d, tj) \in {Undef, ""})
    ELSE IsExpired(d, tj)

\* vercel lines 35-40: no client id or secret in env or token.json
ClientMissing(d, e, tj) == d = "vercel" /\ ~e.client /\ ~tj.client

\* vercel lines 54-66: !response.ok, refreshed.error, !refreshed.access_token;
\* worker lines 24-27: refreshed.error only
RefreshThrows(d, response) ==
  IF d = "vercel" THEN response # "token"
  ELSE response \in { "throws", "status error", "error" }

\* vercel line 68, worker line 28: refreshed.access_token
RefreshedAccessToken(response) == IF response = "token" THEN RefreshedToken ELSE Undef

AuthInit ==
  /\ apc = "start"
  /\ deployment \in Deployments
  /\ aenv \in AuthEnvs
  /\ tokenJson \in TokenJsons
  /\ refreshRequests = 0
  /\ refreshed = ""
  /\ areturned = <<>>
  /\ GmailIdle /\ NotionIdle /\ DispatchIdle /\ ConcurrentIdle
  /\ FilterIdle /\ BucketIdle /\ SlackIdle

\* vercel lines 10 and 77, worker lines 6 and 32: no GOOGLE_TOKEN_BASE64
AuthNotConfigured ==
  /\ UNCHANGED <<gvars, nvars, dvars, cvars, fvars, bvars, svars>>
  /\ apc = "start"
  /\ ~aenv.GOOGLE_TOKEN_BASE64
  /\ apc' = "error"
  /\ UNCHANGED <<deployment, aenv, tokenJson, refreshRequests, refreshed, areturned>>

\* vercel lines 71-75, worker line 30: no refresh, the stored token
AuthStored ==
  /\ UNCHANGED <<gvars, nvars, dvars, cvars, fvars, bvars, svars>>
  /\ apc = "start"
  /\ aenv.GOOGLE_TOKEN_BASE64
  /\ ~NeedsRefresh(deployment, tokenJson)
  /\ IF deployment = "vercel" /\ AccessTokenOf(deployment, tokenJson) \in {Undef, ""}
       THEN apc' = "error" /\ UNCHANGED areturned
       ELSE apc' = "done" /\ areturned' = <<AccessTokenOf(deployment, tokenJson)>>
  /\ UNCHANGED <<deployment, aenv, tokenJson, refreshRequests, refreshed>>

\* vercel lines 38-40: a refresh is needed and there is no client id or secret
AuthNoClient ==
  /\ UNCHANGED <<gvars, nvars, dvars, cvars, fvars, bvars, svars>>
  /\ apc = "start"
  /\ aenv.GOOGLE_TOKEN_BASE64
  /\ NeedsRefresh(deployment, tokenJson)
  /\ ClientMissing(deployment, aenv, tokenJson)
  /\ apc' = "error"
  /\ UNCHANGED <<deployment, aenv, tokenJson, refreshRequests, refreshed, areturned>>

\* vercel lines 43-52, worker lines 14-23: the refresh request is issued
AuthRefresh ==
  /\ UNCHANGED <<gvars, nvars, dvars, cvars, fvars, bvars, svars>>
  /\ apc = "start"
  /\ aenv.GOOGLE_TOKEN_BASE64
  /\ NeedsRefresh(deployment, tokenJson)
  /\ ~ClientMissing(deployment, aenv, tokenJson)
  /\ apc' = "refresh"
  /\ refreshRequests' = refreshRequests + 1
  /\ UNCHANGED <<deployment, aenv, tokenJson, refreshed, areturned>>

\* vercel lines 54-68, worker lines 24-28: the refresh request is answered
AuthRefreshAnswered ==
  /\ UNCHANGED <<gvars, nvars, dvars, cvars, fvars, bvars, svars>>
  /\ apc = "refresh"
  /\ \E response \in RefreshResponses :
       /\ refreshed' = response
       /\ IF RefreshThrows(deployment, response)
            THEN apc' = "error" /\ UNCHANGED areturned
            ELSE apc' = "done" /\ areturned' = <<RefreshedAccessToken(response)>>
  /\ UNCHANGED <<deployment, aenv, tokenJson, refreshRequests>>

AuthNext ==
  \/ AuthNotConfigured
  \/ AuthStored
  \/ AuthNoClient
  \/ AuthRefresh
  \/ AuthRefreshAnswered

\* ======================================================================
\*                            specifications
\* ======================================================================
vars == <<gvars, nvars, ovars>>

\* one call of get_gmail_messages
SpecGmail == GmailInit /\ [][GmailNext]_vars

\* one call of get_notion_tasks
SpecNotion == NotionInit /\ [][NotionNext]_vars

\* one request served by the MCP endpoint
SpecDispatch == DispatchInit /\ [][DispatchNext]_vars

\* two invocations of one tool handler, interleaved at their await points
SpecConcurrent == ConcurrentInit /\ [][ConcurrentNext]_vars

\* one application of buildFilter, and one evaluation of its filter
SpecFilter == FilterInit /\ [][FilterNext]_vars

\* the result built from window answers of any content
SpecBucket == BucketInit /\ [][BucketNext]_vars

\* one call of post_to_slack
SpecSlack == SlackInit /\ [][SlackNext]_vars

\* one call of getGoogleAccessToken, in either deployment
SpecAuth == AuthInit /\ [][AuthNext]_vars

\* ======================================================================
\*                     properties of get_gmail_messages
\* ======================================================================
\* the metadata records of the successfully fetched messages
Fetched == { messageMetadata[i].value : i \in 1..Len(messageMetadata) }

MaxOf(S) == CHOOSE x \in S : \A y \in S : y <= x

\* C1: after deduplication there is exactly one representative per distinct
\* group key (thread_id, or the message id when thread_id is absent) of the
\* fetched messages, it is one of the fetched messages, and its internal_date
\* is the maximum internal_date of the fetched messages with that group key.
C1_ThreadDedup ==
  gpc = "done" =>
    /\ \A m \in Fetched :
         Cardinality({ i \in 1..Len(uniqueThreads) :
                         GroupKey(uniqueThreads[i]) = GroupKey(m.email) }) = 1
    /\ \A i \in 1..Len(uniqueThreads) :
         \E m \in Fetched :
           /\ m.email = uniqueThreads[i]
           /\ m.internal_date =
                MaxOf({ o.internal_date : o \in
                          { x \in Fetched : GroupKey(x.email) = GroupKey(m.email) } })

\* two fetched messages of one thread, the later one fetched second, collapsed to one
C1_Witness ==
  /\ gpc = "done"
  /\ Len(messageMetadata) = 2
  /\ GroupKey(messageMetadata[1].value.email) = GroupKey(messageMetadata[2].value.email)
  /\ messageMetadata[1].value.internal_date < messageMetadata[2].value.internal_date
  /\ uniqueThreads = <<messageMetadata[2].value.email>>

\* C2: get_gmail_messages never returns more records than the max_results the
\* caller supplied.
C2_AtMostCallerLimit ==
  (gpc = "done" /\ gargs.max_results # <<>>) => Len(sorted) <= gargs.max_results[1]

\* C3: with an empty allow-list, or when no representative's sender address
\* equals an allow-list entry case-insensitively, the ranker proceeds with all
\* deduplicated threads; otherwise with exactly the matching representatives.
C3_ImportanceFallback ==
  gpc = "done" =>
    LET OnList(e) ==
          /\ e.from_email # Undef
          /\ \E i \in 1..Len(importantSenders) :
               Lower(importantSenders[i]) = Lower(e.from_email)
    IN IF Len(importantSenders) = 0
          \/ \A i \in 1..Len(uniqueThreads) : ~OnList(uniqueThreads[i])
         THEN important = uniqueThreads
         ELSE important = SelectSeq(uniqueThreads, OnList)

\* the filter kept one thread, matched only up to letter case, and dropped another
C3_Witness ==
  /\ gpc = "done"
  /\ Len(uniqueThreads) = 2
  /\ Len(important) = 1
  /\ important[1].from_email \notin Range(importantSenders)

\* C8: the output is the first maxResults elements of the stable descending
\* sort by internal_date of the surviving set: dates do not increase, equal
\* dates keep the surviving set's order, and nothing left out is more recent
\* than (or tied with but earlier placed than) a record of the output.
C8_SortedTruncated ==
  gpc = "done" =>
    LET D(e) == DateOf(messageMetadata, e.id)
        Pos(e) == CHOOSE j \in 1..Len(important) : important[j] = e
        n == Len(sorted)
        out == Range(sorted)
    IN /\ n = Min(maxResults, Len(important))
       /\ out \subseteq Range(important)
       /\ Cardinality(out) = n
       /\ \A i \in 1..n, j \in 1..n :
            i < j => \/ D(sorted[i]) > D(sorted[j])
                     \/ /\ D(sorted[i]) = D(sorted[j])
                        /\ Pos(sorted[i]) < Pos(sorted[j])
       /\ \A e \in Range(important) \ out : \A o \in out :
            \/ D(e) < D(o)
            \/ D(e) = D(o) /\ Pos(o) < Pos(e)

\* the older of two surviving threads came first and was cut by the limit
C8_Witness ==
  /\ gpc = "done"
  /\ Len(important) = 2
  /\ DateOf(messageMetadata, important[1].id) < DateOf(messageMetadata, important[2].id)
  /\ sorted = <<important[2]>>

\* C9: ranking the ranker's own output again, with the same allow-list and the
\* same limit, returns the same list in the same order.
C9_RankIdempotent ==
  gpc = "done" =>
    Rank(sorted, importantSenders, maxResults, messageMetadata) = sorted

\* an output of two threads with equal dates, selected by the allow-list
C9_Witness ==
  /\ gpc = "done"
  /\ Len(sorted) = 2
  /\ Len(uniqueThreads) = 2
  /\ Len(importantSenders) > 0
  /\ DateOf(messageMetadata, sorted[1].id) = DateOf(messageMetadata, sorted[2].id)

\* ---------------------------------------------------------------------------
\* Properties of getNotionTasks
\* ---------------------------------------------------------------------------

\* the ids of the tasks returned in window w
Returned(w) == { result[w][i].id : i \in 1..Len(result[w]) }

ReturnedAnywhere == Returned("overdue") \cup Returned("today") \cup Returned("upcoming")

\* the three window queries were answered with results
AllAnswered ==
  responses # <<>> /\ \A w \in Range(Windows) : responses[w]

\* the due timestamp of a page of the database, <<>> when it has none
DueOfPage(page) == DueDateOf(PageProps(properties, page), dueProp)

\* the page carries, under the resolved status property, a configured done value
Completed(page) ==
  LET props == PageProps(properties, page)
  IN /\ statusProp # Undef
     /\ PropIndex(props, statusProp) # 0
     /\ props[PropIndex(props, statusProp)].option \in Range(doneValues)

TodayStartArg == nargs.today_start_iso
TodayEndArg == nargs.today_end_iso

\* the page carries, under some status or select property, a configured done value
CarriesDoneName(page) ==
  LET props == PageProps(properties, page)
  IN \E i \in 1..Len(props) :
       props[i].type \in {"status", "select"} /\ props[i].option \in Range(doneValues)

\* C4 as stated: for every provider response, no task of the returned today,
\* overdue or upcoming list has a status/select name that is one of the
\* configured done values.
C4_NoDoneNameReturned ==
  npc = "done" =>
    \A page \in database : CarriesDoneName(page) => PageId(page) \notin ReturnedAnywhere

\* C4 amended: no task of the returned today, overdue or upcoming list carries,
\* under the resolved status property (the first status or select property
\* named 'done' in any letter case), a name that is one of the configured done
\* values, whichever window it was fetched in.
C4_CompletedExcluded ==
  npc = "done" =>
    \A page \in database : Completed(page) => PageId(page) \notin ReturnedAnywhere

\* a completed page was fetched in a window and is missing from that window's list
C4_Witness ==
  /\ npc = "done"
  /\ \E w \in Range(Windows) : \E i \in 1..Len(data[w]) :
       /\ Completed(data[w][i])
       /\ PageId(data[w][i]) \notin Returned(w)

BoundariesClosedOnToday ==
  \A page \in database :
    (DueOfPage(page) # <<>> /\ ~Completed(page)) =>
      /\ DueOfPage(page)[1] = TodayEndArg =>
           PageId(page) \in Returned("today") /\ PageId(page) \notin Returned("upcoming")
      /\ DueOfPage(page)[1] = TodayStartArg =>
           PageId(page) \in Returned("today") /\ PageId(page) \notin Returned("overdue")

\* C6 as stated: a record due exactly at todayEnd is in today and not in
\* upcoming, and a record due exactly at todayStart is in today and not in
\* overdue.
C6_ClosedBoundaries ==
  (npc = "done" /\ AllAnswered) => BoundariesClosedOnToday

\* C6 amended: given todayEnd >= todayStart, a record due exactly at todayEnd
\* is in today and not in upcoming, and a record due exactly at todayStart is
\* in today and not in overdue.
C6_ClosedBoundariesOrdered ==
  (npc = "done" /\ AllAnswered /\ TodayEndArg >= TodayStartArg) => BoundariesClosedOnToday

\* todayStart < todayEnd, and a record due at each boundary is returned in today
C6_Witness ==
  /\ npc = "done" /\ AllAnswered /\ TodayEndArg > TodayStartArg
  /\ \E p, q \in database :
       /\ DueOfPage(p) = <<TodayStartArg>> /\ PageId(p) \in Returned("today")
       /\ DueOfPage(q) = <<TodayEndArg>> /\ PageId(q) \in Returned("today")

\* C7: the upcoming window holds exactly the records with
\* todayEnd < due < todayEnd + daysAhead, the upper bound being computed from
\* todayEnd and the daysAhead the caller supplied.
C7_UpcomingFromTodayEnd ==
  (npc = "done" /\ AllAnswered /\ nargs.days_ahead # <<>>) =>
    Returned("upcoming") =
      { PageId(p) : p \in { q \in database :
           /\ DueOfPage(q) # <<>>
           /\ ~Completed(q)
           /\ DueOfPage(q)[1] > TodayEndArg
           /\ DueOfPage(q)[1] < TodayEndArg + nargs.days_ahead[1] * DayLength } }

\* the pageToTask calls of all windows
Conversions ==
  UNION { { converted[w][i] : i \in 1..Len(converted[w]) } : w \in Range(Windows) }

\* C10: a failed related-page lookup never aborts the call: the call fails
\* only before any page is converted, it ends once no lookup is pending, and
\* in its result every record that is not completed appears, with an undefined
\* area when its lookup failed and with the looked-up title when it did not.
C10_LookupFailureIsolated ==
  /\ npc = "error" => Conversions = {}
  /\ npc = "convert" => \E c \in Conversions : Pending(c)
  /\ npc = "done" =>
       \A w \in Range(Windows) : \A i \in 1..Len(converted[w]) :
         LET c == converted[w][i]
         IN /\ c.answer = "failed" => c.task.area = Undef
            /\ c.answer = "titled" => c.task.area = RelatedTitle
            /\ ~c.task.done => \E j \in 1..Len(result[w]) : result[w][j] = c.task

\* the call has returned two records, one whose lookup failed and one whose
\* lookup gave a title
C10_Witness ==
  /\ npc = "done"
  /\ \E w, v \in Range(Windows) :
       \E i \in 1..Len(result[w]) : \E j \in 1..Len(result[v]) :
         /\ result[w][i].area = Undef
         /\ result[v][j].area = RelatedTitle
         /\ \E c \in Conversions : c.task = result[w][i] /\ c.answer = "failed"
         /\ \E c \in Conversions : c.task = result[v][j] /\ c.answer = "titled"

\* ---------------------------------------------------------------------------
\* Requests and failures of getNotionTasks
\* ---------------------------------------------------------------------------

\* the positions in the request log of the related-page requests issued for
\* the i-th record fetched in window w
LookupsFor(w, i) ==
  { k \in 1..Len(requests) :
      requests[k].kind = "page" /\ requests[k].window = w /\ requests[k].index = i }

CredentialAbsent ==
  \/ nargs.api_key = <<>> /\ nenv.NOTION_API_KEY = <<>>
  \/ nargs.database_id = <<>> /\ nenv.NOTION_TASK_DATABASE_ID = <<>>

\* C12: when the API key or the database id is missing from both the
\* arguments and the environment, the call fails, returns no result and issues
\* no provider request.
C12_ConfigErrorFatal ==
  (npc \notin {"idle", "start"} /\ CredentialAbsent) =>
    /\ npc = "error"
    /\ requests = <<>>
    /\ result = EmptyWindows

\* the call has failed with the API key present and the database id missing
C12_Witness ==
  /\ npc = "error"
  /\ nenv.NOTION_API_KEY # <<>>
  /\ nargs.database_id = <<>> /\ nenv.NOTION_TASK_DATABASE_ID = <<>>
  /\ requests = <<>>

\* some window query was answered with a non-success status
SomeWindowNotOk ==
  responses # <<>> /\ \E w \in Range(Windows) : ~responses[w]

\* C13 as stated: whenever the message list request, the schema request or any
\* of the three window queries answers with a non-success status, the call
\* fails and returns no result.
C13_ProviderErrorFatal ==
  /\ listOk = <<FALSE>> => (gpc = "error" /\ sorted = <<>>)
  /\ dbOk = <<FALSE>> => (npc = "error" /\ result = EmptyWindows)
  /\ SomeWindowNotOk => (npc = "error" /\ result = EmptyWindows)

\* What the handlers do with a non-success status: on the message list request
\* and on the schema request the call fails and returns no result; on a window
\* query the call does not fail, and that window's list is empty.
C13_ListAndSchemaErrorFatal ==
  /\ listOk = <<FALSE>> => (gpc = "error" /\ sorted = <<>>)
  /\ dbOk = <<FALSE>> =>
       /\ npc = "error"
       /\ result = EmptyWindows
       /\ \A k \in 1..Len(requests) : requests[k].kind = "database"
  /\ SomeWindowNotOk =>
       /\ npc # "error"
       /\ \A w \in Range(Windows) : ~responses[w] => (data[w] = <<>> /\ result[w] = <<>>)

\* the schema request was answered with a non-success status and the call has
\* failed before any query was issued
SchemaErrorReached ==
  /\ dbOk = <<FALSE>>
  /\ npc = "error"
  /\ Len(requests) = 1

\* the window queries answered with a non-success status
NotOkWindows ==
  IF responses = <<>> THEN {} ELSE { w \in Range(Windows) : ~responses[w] }

\* the ids of the not completed pages of the database that the filter of
\* window w admits
Admitted(w) ==
  { PageId(p) : p \in { q \in database :
       EvalFilter(filters[w], PageProps(properties, q)) /\ ~Completed(q) } }

\* C14 as stated: when exactly one of the three window queries fails, the
\* whole call does not fail and the results of the other two windows are not
\* lost.
C14_WindowFailureIsolated ==
  (Cardinality(NotOkWindows) = 1 \/ Cardinality(rejected) = 1) =>
    /\ npc # "error"
    /\ npc = "done" =>
         \A w \in Range(Windows) \ (NotOkWindows \cup rejected) : Returned(w) = Admitted(w)

\* What the handler does when one window query fails: answered with a
\* non-success status, the call does not fail, that window's list is empty and
\* the other two windows hold what their queries answered; when the request of
\* a window query rejects, the whole call fails and returns nothing.
C14_StatusFailureIsolated ==
  /\ Cardinality(NotOkWindows) = 1 =>
       /\ npc # "error"
       /\ npc = "done" =>
            /\ \A w \in NotOkWindows : result[w] = <<>>
            /\ \A w \in Range(Windows) \ NotOkWindows : Returned(w) = Admitted(w)
  /\ Cardinality(rejected) = 1 => (npc = "error" /\ result = EmptyWindows)

\* the call has returned with one window query answered with a non-success
\* status while the database holds a page that query would admit, and another
\* window's list is not empty
WindowErrorReached ==
  /\ npc = "done"
  /\ \E w \in NotOkWindows :
       /\ NotOkWindows = {w}
       /\ Admitted(w) # {}
       /\ result[w] = <<>>
       /\ \E v \in Range(Windows) \ {w} : result[v] # <<>>

\* ---------------------------------------------------------------------------
\* Failures and ties of get_gmail_messages
\* ---------------------------------------------------------------------------

\* the metadata map of a run in which only the messages whose metadata request
\* succeeded among the first k had been listed, in the same order
RECURSIVE MetadataOfSucceeded(_)
MetadataOfSucceeded(k) ==
  IF k = 0 THEN <<>>
  ELSE IF fetches[k] = <<>> THEN MetadataOfSucceeded(k - 1)
  ELSE MapSet(MetadataOfSucceeded(k - 1), messageIds[k],
              MetadataOf(messageIds[k], fetches[k][1]))

\* C15: a failed metadata request never fails the call: the call fails only
\* before the first metadata request, every listed message is asked for, and
\* the output is the output of the pipeline on the successfully fetched
\* messages alone.
C15_FailedFetchSkipped ==
  /\ gpc = "error" => fetches = <<>>
  /\ (gpc = "done" /\ listOk = <<TRUE>>) =>
       /\ Len(fetches) = Len(messageIds)
       /\ sorted = Rank(UniqueThreads(MetadataOfSucceeded(Len(fetches))),
                        importantSenders, maxResults,
                        MetadataOfSucceeded(Len(fetches)))

\* the call has returned a record although the metadata request that followed
\* a successful one failed
C15_Witness ==
  /\ gpc = "done"
  /\ Len(fetches) = 2
  /\ fetches[1] # <<>> /\ fetches[2] = <<>>
  /\ Len(sorted) = 1

\* ---------------------------------------------------------------------------
\* Schema resolution of getNotionTasks
\* ---------------------------------------------------------------------------

\* the schema was read and none of the candidate names has declared type date
NoDateCandidate ==
  /\ dbOk = <<TRUE>>
  /\ \A i \in 1..Len(properties) :
       properties[i].name \in {"Due", "Due date", "Due Date", "Date"}
         => properties[i].type # "date"

\* C16: when none of the candidate names has declared type date, the due
\* field is the default name 'Due', the call fails only if a window request
\* rejects, and once the window queries are answered it returns empty today,
\* overdue and upcoming lists.
C16_DueMissDefaults ==
  NoDateCandidate =>
    /\ dueProp = "Due"
    /\ npc = "error" => rejected # {}
    /\ responses # <<>> => (npc = "done" /\ result = EmptyWindows)

\* the call has returned three empty lists for a database that holds a page
\* with a date under a property that is not a candidate
C16_Witness ==
  /\ NoDateCandidate
  /\ npc = "done"
  /\ AllAnswered
  /\ \E p \in database : p.due # <<>>
  /\ result = EmptyWindows

\* the positions in fetch order of the fetched messages of the group of email e
GroupPositions(e) ==
  { i \in 1..Len(messageMetadata) :
      GroupKey(messageMetadata[i].value.email) = GroupKey(e) }

\* the first position in fetch order, among the group of e, of a message with
\* the greatest internal_date of the group
FirstOfLatest(e) ==
  LET latest == MaxOf({ messageMetadata[i].value.internal_date : i \in GroupPositions(e) })
      at == { i \in GroupPositions(e) : messageMetadata[i].value.internal_date = latest }
  IN CHOOSE i \in at : \A j \in at : i <= j

\* C19: the representative of a group is the first message in fetch order
\* among those of the group with the greatest internal_date: a later message
\* with an equal internal_date does not replace it, a later message with a
\* strictly greater one does.
C19_FirstOfTiesKept ==
  gpc = "done" =>
    \A k \in 1..Len(uniqueThreads) :
      uniqueThreads[k] = messageMetadata[FirstOfLatest(uniqueThreads[k])].value.email

\* two fetched messages of one group have the same internal_date and the one
\* fetched first represents the group
C19_Witness ==
  /\ gpc = "done"
  /\ Len(messageMetadata) = 2
  /\ GroupKey(messageMetadata[1].value.email) = GroupKey(messageMetadata[2].value.email)
  /\ messageMetadata[1].value.internal_date = messageMetadata[2].value.internal_date
  /\ uniqueThreads = << messageMetadata[1].value.email >>

\* the schema was read and has no status or select property named 'done' in
\* any letter case
NoDoneProperty ==
  /\ dbOk = <<TRUE>>
  /\ \A i \in 1..Len(properties) :
       properties[i].type \in {"status", "select"} => Lower(properties[i].name) # "done"

\* the filter has a condition on a status somewhere
RECURSIVE HasStatusClause(_)
HasStatusClause(f) ==
  \/ f.op = "status"
  \/ \E i \in 1..Len(f.parts) : HasStatusClause(f.parts[i])

\* the ids of a sequence of pages, and of a sequence of tasks, in order
PageIds(pages) == [ i \in 1..Len(pages) |-> PageId(pages[i]) ]
TaskIds(tasks) == [ i \in 1..Len(tasks) |-> tasks[i].id ]

\* C20: when the schema has no status or select property named 'done' in any
\* letter case, the status field is undefined, no filter carries a not-done
\* clause, every fetched record is converted with done false, and every record
\* a window query answered is in that window's list, in the same order.
C20_NoStatusNoFiltering ==
  NoDoneProperty =>
    /\ statusProp = Undef
    /\ \A w \in Range(Windows) : ~HasStatusClause(filters[w])
    /\ \A c \in Conversions : ~c.task.done
    /\ npc = "done" => \A w \in Range(Windows) : TaskIds(result[w]) = PageIds(data[w])

\* the schema names its status property 'Status', and a page whose status is a
\* configured done value has been fetched and returned
C20_Witness ==
  /\ NoDoneProperty
  /\ npc = "done"
  /\ \E w \in Range(Windows) : \E i \in 1..Len(data[w]) :
       /\ CarriesDoneName(data[w][i])
       /\ PageId(data[w][i]) \in Returned(w)

\* ======================================================================
\*                     properties of the MCP endpoint
\* ======================================================================
\* the request asks for a tool by a name the endpoint lists
AsksListedTool ==
  /\ body # <<>>
  /\ body[1].method = "tools/call"
  /\ body[1].params # <<>>
  /\ ToolName(body[1]) \in Range(ListedTools(variant))

\* C18: the answer to tools/list names exactly the seven documented tools,
\* each once; and a tools/call asking for any listed name is dispatched to a
\* handler, never answered with 'Unknown tool'.
C18_ToolSurface ==
  /\ (dpc = "responded" /\ body # <<>> /\ body[1].method = "tools/list") =>
        /\ returned.status = 200
        /\ Range(returned.tools) = DocumentedTools
        /\ Len(returned.tools) = Cardinality(DocumentedTools)
  /\ (dpc \in {"called", "responded"} /\ AsksListedTool) =>
        /\ called # <<>>
        /\ returned.kind # "unknown tool"

\* the last listed tool was asked of the Vercel endpoint, dispatched to its
\* handler, and the handler's value was returned
C18_Witness ==
  /\ dpc = "responded"
  /\ variant = "vercel"
  /\ AsksListedTool
  /\ ToolName(body[1]) = "upload_file_to_slack"
  /\ called # <<>> /\ called[1].handler = "uploadFileToSlack"
  /\ returned.status = 200

\* ======================================================================
\*                  properties of concurrent invocations
\* ======================================================================
\* what get_gmail_messages returns when it runs alone with the inputs of an
\* invocation and receives the answers that invocation received
AloneGmail(c) ==
  LET meta == ReplayMetadata(c.listed, c.fetched, <<>>)
  IN Rank(UniqueThreads(meta), ResolveImportantSenders(c.args, c.env),
          ResolveMaxResults(c.args, c.env), meta)

\* what get_notion_tasks returns when it runs alone with the inputs of an
\* invocation and receives the answers that invocation received
AloneNotion(c) ==
  LET locals == NotionLocals(ResolveDaysAhead(c.args, c.env), c.schema,
                             ResolveDueProp(c.schema), ResolveStatusProp(c.schema),
                             ResolveDoneValues(c.env))
      filter == FiltersOf(locals, c.args, c.now)
      Convert(page) ==
        Continue(PageToTask(page, c.schema, locals.dueProp, locals.statusProp,
                            locals.doneValues),
                 c.schema, locals, c.lookup)
      Window(w) == MapSeq(Convert, QueryResults(c.database, c.schema, filter[w]))
  IN ResultOf([overdue |-> Window("overdue"), today |-> Window("today"),
               upcoming |-> Window("upcoming")])

Alone(c) == IF c.tool = "gmail" THEN AloneGmail(c) ELSE AloneNotion(c)

\* the objects an invocation works on hold what that invocation alone put there
OwnObjects(i) ==
  LET c == calls[i]
      locals == heap[ScopeOf(i)]
  IN IF c.tool = "gmail"
       THEN c.pc \in {"fetch", "done"} =>
              /\ locals.messageIds = c.listed
              /\ locals.messageMetadata = ReplayMetadata(c.listed, c.fetched, <<>>)
              /\ locals.maxResults = ResolveMaxResults(c.args, c.env)
       ELSE c.pc \in {"query", "convert", "done"} =>
              /\ locals.properties = c.schema
              /\ locals.dueProp = ResolveDueProp(c.schema)
              /\ locals.statusProp = ResolveStatusProp(c.schema)

\* C17: for two invocations of get_gmail_messages (or of get_notion_tasks)
\* interleaved in any way at their await points, each invocation returns what
\* it returns when it runs alone on the same inputs and provider answers, and
\* the maps, lists and variables it works on are touched by no other invocation.
C17_InvocationsIsolated ==
  \A i \in DOMAIN calls :
    /\ OwnObjects(i)
    /\ calls[i].pc = "done" => calls[i].result = Alone(calls[i])

\* both invocations have returned, they ran interleaved, and their inputs
\* and results differ
C17_Witness ==
  /\ calls # <<>>
  /\ overlapped
  /\ calls[1].pc = "done" /\ calls[2].pc = "done"
  /\ IF calls[1].tool = "gmail" THEN calls[1].args # calls[2].args
     ELSE calls[1].schema # calls[2].schema
  /\ calls[1].result # calls[2].result

\* ======================================================================
\*                       properties of buildFilter
\* ======================================================================
\* f is a does-not-equal clause on the status property for the done value dv
IsNotEqualClause(f, dv) ==
  f.op = "status" /\ f.cond = "does_not_equal" /\ f.property = fstatusProp /\ f.name = dv

\* C21: the filter built for a window is an AND whose first part is the
\* window's date constraint; it has a second, not-done part exactly when the
\* status property is resolved and there is at least one done value; that part
\* is one does-not-equal clause for one done value, and an OR of one
\* does-not-equal clause per done value for several.
C21_FilterComposition ==
  built # <<>> =>
    LET f == built[1]
        withNotDone == fstatusProp # Undef /\ Len(fdoneValues) > 0
    IN /\ f.op = "and"
       /\ Len(f.parts) = IF withNotDone THEN 2 ELSE 1
       /\ f.parts[1] = fdateFilter
       /\ (withNotDone /\ Len(fdoneValues) = 1) =>
             IsNotEqualClause(f.parts[2], fdoneValues[1])
       /\ (withNotDone /\ Len(fdoneValues) > 1) =>
             /\ f.parts[2].op = "or"
             /\ Len(f.parts[2].parts) = Len(fdoneValues)
             /\ \A k \in 1..Len(fdoneValues) :
                  IsNotEqualClause(f.parts[2].parts[k], fdoneValues[k])

\* a filter was built with a resolved status property and exactly one done value
C21_Witness ==
  /\ built # <<>>
  /\ fstatusProp # Undef
  /\ Len(fdoneValues) = 1
  /\ Len(built[1].parts) = 2

\* the page evaluated has a status that is one of the configured done values
\* of a resolved status property
EvaluatedDonePage ==
  /\ evaluated # <<>>
  /\ fstatusProp # Undef
  /\ evaluated[1].option \in Range(fdoneValues)

\* C22: for every non-empty set of done values, of size one or larger, the
\* filter buildFilter returns is false for every page whose status equals one
\* of the done values: the query admits no completed page.
C22_QueryExcludesCompleted ==
  EvaluatedDonePage => ~evaluated[1].admitted

\* What the filter excludes: with exactly one done value a page with that
\* status is never admitted.
SingleDoneValueExcluded ==
  (EvaluatedDonePage /\ Len(fdoneValues) = 1) => ~evaluated[1].admitted

\* ======================================================================
\*                 properties of the grouping by window
\* ======================================================================
\* a due date satisfies the date constraint of window w
DueInWindow(w, due) ==
  /\ due # <<>>
  /\ CASE w = "overdue" -> due[1] < BucketDay.start
       [] w = "today" -> due[1] >= BucketDay.start /\ due[1] <= BucketDay.end
       [] w = "upcoming" -> due[1] > BucketDay.end /\ due[1] < BucketDay.futureEnd

\* the pages of an answer that are not completed, in the order answered
NotCompletedOf(pages) ==
  LET Open(p) == p.status # "Done"
  IN FilterSeq(Open, pages)

RequestsOfKind(kind) == { k \in 1..Len(requests) : requests[k].kind = kind }

\* C24: no window query is issued before the schema request has answered; the
\* three window queries are issued together, in one step and before any of
\* them has answered, and are answered jointly; and no related-page request
\* is issued before all three window queries have answered and been parsed.
C24_PipelineOrder ==
  /\ RequestsOfKind("query") # {} =>
       /\ dbOk # <<>>
       /\ npc \notin {"start", "schema"}
       /\ RequestsOfKind("database") = {1}
       /\ RequestsOfKind("query") = {2, 3, 4}
       /\ <<requests[2].window, requests[3].window, requests[4].window>> = Windows
  /\ npc = "query" => responses = <<>> /\ RequestsOfKind("query") = {2, 3, 4}
  /\ responses # <<>> => DOMAIN responses = Range(Windows)
  /\ RequestsOfKind("page") # {} =>
       /\ responses # <<>>
       /\ npc \in {"convert", "done", "error"}
       /\ \A k \in RequestsOfKind("page") : k > 4

\* the three queries have answered and a related-page request has been
\* issued after them
C24_Witness ==
  /\ npc = "convert"
  /\ responses # <<>>
  /\ Len(requests) > 4
  /\ requests[5].kind = "page"

\* ======================================================================
\*                    properties of the allow-list
\* ======================================================================
\* the sender address of an email is on the allow-list, up to letter case
OnAllowList(e) ==
  /\ e.from_email # Undef
  /\ \E i \in 1..Len(importantSenders) :
       Lower(importantSenders[i]) = Lower(e.from_email)

\* C25 as stated: with a non-empty allow-list, if at least one successfully
\* fetched message has a sender address on the allow-list, every record
\* returned has a sender address on the allow-list.
C25_AllowListOnFetched ==
  (/\ gpc = "done"
   /\ Len(importantSenders) > 0
   /\ \E m \in Fetched : OnAllowList(m.email)) =>
     \A i \in 1..Len(sorted) : OnAllowList(sorted[i])

\* C25 amended: with a non-empty allow-list, if at least one thread
\* representative left by the deduplication has a sender address on the
\* allow-list, every record returned has a sender address on the allow-list;
\* the fallback to the unfiltered set is taken only when no representative
\* matches the allow-list (fetched messages that lost the deduplication do not
\* count).
C25_AllowListOnRepresentatives ==
  (gpc = "done" /\ Len(importantSenders) > 0) =>
    IF \E i \in 1..Len(uniqueThreads) : OnAllowList(uniqueThreads[i])
      THEN /\ \A i \in 1..Len(sorted) : OnAllowList(sorted[i])
           /\ \A i \in 1..Len(important) : OnAllowList(important[i])
      ELSE important = uniqueThreads

\* two threads were left by the deduplication, one representative is on the
\* allow-list, and only that one is returned although the limit allows two
C25_Witness ==
  /\ gpc = "done"
  /\ Len(importantSenders) > 0
  /\ Len(uniqueThreads) = 2
  /\ maxResults >= 2
  /\ Len(sorted) = 1
  /\ OnAllowList(sorted[1])

\* ======================================================================
\*                 properties of the lists of one result
\* ======================================================================
\* the task ids that are in more than one list of the result
InSeveralLists ==
  (Returned("overdue") \cap Returned("today"))
    \cup (Returned("today") \cap Returned("upcoming"))
    \cup (Returned("overdue") \cap Returned("upcoming"))

\* C26 as stated: for every pair of today_start_iso and today_end_iso, also
\* with today_end_iso earlier than today_start_iso, no task id is in more than
\* one of the today, overdue and upcoming lists of a result.
C26_ListsDisjoint ==
  npc = "done" => InSeveralLists = {}

\* C26 amended: for every pair with today_end_iso not earlier than
\* today_start_iso, no task id is in more than one list; with today_end_iso
\* earlier than today_start_iso, which is not validated, the today list is
\* empty and a task in two lists is in overdue and in upcoming, and is due
\* after today_end_iso, before today_start_iso and before the horizon.
C26_ListsDisjointWhenOrdered ==
  npc = "done" =>
    IF TodayEndArg >= TodayStartArg THEN InSeveralLists = {}
    ELSE /\ Returned("today") = {}
         /\ InSeveralLists = Returned("overdue") \cap Returned("upcoming")
         /\ \A id \in InSeveralLists :
              id[1][1] > TodayEndArg /\ id[1][1] < TodayStartArg /\ id[1][1] < futureEnd

\* today_end_iso is not earlier than today_start_iso and two lists of the
\* result hold a task each
C26_Witness ==
  /\ npc = "done"
  /\ TodayEndArg >= TodayStartArg
  /\ Returned("overdue") # {}
  /\ Returned("today") # {}

\* the ids of the pages of a window's answer that do not carry a done value,
\* in the order of the answer
RECURSIVE OpenPageIds(_)
OpenPageIds(pages) ==
  IF pages = <<>> THEN <<>>
  ELSE (IF Completed(Head(pages)) THEN <<>> ELSE <<PageId(Head(pages))>>)
       \o OpenPageIds(Tail(pages))

\* C27: each list of the result holds the non-completed records of its window
\* in the order the provider returned them, for every order in which the
\* related-page requests complete or fail; while requests are pending the
\* calls keep the order of the answer.
C27_ProviderOrderKept ==
  /\ \A w \in Range(Windows) :
       npc \in {"convert", "done"} =>
         [ i \in 1..Len(converted[w]) |-> converted[w][i].task.id ] = PageIds(data[w])
  /\ npc = "done" =>
       \A w \in Range(Windows) : TaskIds(result[w]) = OpenPageIds(data[w])

\* two records of one list were returned, and the related-page request of the
\* second completed before that of the first, one of them failing
C27_Witness ==
  /\ npc = "done"
  /\ \E w \in Range(Windows) :
       /\ Len(result[w]) = 2
       /\ Len(converted[w]) = 2
       /\ converted[w][1].nth > converted[w][2].nth
       /\ converted[w][2].nth > 0
       /\ converted[w][1].answer # converted[w][2].answer

\* ======================================================================
\*                       properties of post_to_slack
\* ======================================================================
\* the places of the requests to one Slack method in the log
SlackCalls(api) == { k \in 1..Len(slackRequests) : slackRequests[k].api = api }

\* the conversations.open request was answered with a channel id
DmYielded ==
  \E k \in SlackCalls("conversations.open") : slackRequests[k].answer = "opened"

\* C28: a DM channel is tried first when a user id is available; the
\* configured channel is used only if opening the DM did not yield a channel
\* id; chat.postMessage is issued at most once, only after a channel id has
\* been resolved; the call fails without posting when the bot token is missing
\* or neither a DM nor a fallback channel is available.
C28_DeliveryOrder ==
  LET opens == SlackCalls("conversations.open")
      posts == SlackCalls("chat.postMessage")
      channel == SlackChannel(sargs, senv)
      usable == Truthy(channel) /\ StripHash(channel[1]) # <<>>
  IN /\ Cardinality(posts) <= 1 /\ Cardinality(opens) <= 1
     /\ (Truthy(senv.SLACK_BOT_TOKEN) /\ Truthy(SlackUserId(sargs, senv)) /\ spc # "start")
          => /\ opens = {1}
             /\ slackRequests[1].to = SlackUserId(sargs, senv)[1]
     /\ \A k \in posts :
          /\ \A j \in opens : j < k /\ slackRequests[j].answer # ""
          /\ Truthy(channelId) /\ slackRequests[k].to = channelId[1]
          /\ IF DmYielded THEN slackRequests[k].to = DmChannel
             ELSE usable /\ slackRequests[k].to = StripHash(channel[1])
     /\ ~Truthy(senv.SLACK_BOT_TOKEN) =>
          /\ slackRequests = <<>>
          /\ spc \in {"start", "error"}
     /\ (spc \in {"done", "error"} /\ ~DmYielded /\ ~usable) =>
          /\ posts = {}
          /\ spc = "error"
     /\ spc = "done" => sreturned = <<[success |-> TRUE, channel |-> channelId]>> /\ posts # {}

\* opening the DM failed and the message was posted to the configured
\* channel, its leading '#' removed
C28_Witness ==
  /\ spc = "done"
  /\ SlackCalls("conversations.open") = {1}
  /\ ~DmYielded
  /\ slackRequests[2].to = <<"g">>

\* ======================================================================
\*                    properties of getGoogleAccessToken
\* ======================================================================
\* the refresh request was answered with anything but a fresh access token
RefreshFailed == refreshed \notin { "", "token" }

\* C29: in both deployments the call returns a non-empty access token or
\* throws: it never returns an undefined or empty token, it issues at most one
\* refresh request, and after a failed refresh it throws rather than returning
\* the stored token.
C29_TokenOrThrow ==
  /\ refreshRequests <= 1
  /\ apc = "done" => areturned # <<>> /\ areturned[1] \notin { Undef, "" }
  /\ apc \in {"done", "error"} /\ RefreshFailed => apc = "error" /\ areturned = <<>>

\* the same of the deployment of lib/tools/google-auth.ts alone
TokenOrThrowOnVercel == deployment = "vercel" => C29_TokenOrThrow

\* what holds of both deployments: at most one refresh request, and the stored
\* token is never returned once a refresh request was issued
RefreshAtMostOnce ==
  /\ refreshRequests <= 1
  /\ apc = "done" /\ refreshRequests = 1 =>
       areturned \in { <<RefreshedToken>>, <<Undef>> }
  /\ areturned = <<Undef>> \/ areturned = <<"">> => deployment = "worker"

\* ======================================================================
\*                  properties of the error mapping
\* ======================================================================
\* the request is a tools/call that names a tool the switch has no case for
AsksUnknownTool ==
  /\ body # <<>>
  /\ body[1].method = "tools/call"
  /\ body[1].params # <<>>
  /\ Switch(variant, ToolName(body[1])) = Undef

\* the request names a method that is neither tools/list nor tools/call
AsksUnknownMethod ==
  body # <<>> /\ body[1].method \notin {"tools/list", "tools/call"}

\* the answers to unknown tools, unknown methods and throwing handlers, with
\* the code of the last one left open
ErrorMappingUpToCode(code) ==
  /\ (dpc = "responded") = (returned.kind # "none")
  /\ dpc = "responded" /\ AsksUnknownTool =>
       returned.status = 404 /\ returned.code = 0 - 32601 /\ called = <<>>
  /\ dpc = "responded" /\ AsksUnknownMethod =>
       returned.status = 400 /\ called = <<>>
  /\ dpc = "responded" /\ called # <<>> /\ returned.kind # "result" =>
       returned.status = 500 /\ returned.kind = "error" /\ returned.code = code

\* C30: in both deployments every handled request yields exactly one response;
\* a tools/call naming an unknown tool yields 404 with code -32601 and invokes
\* no handler; an unknown method yields 400 and invokes no handler; an error
\* thrown by a handler yields 500 with the internal-error code -32603.
C30_ErrorMapping == ErrorMappingUpToCode(0 - 32603)

\* the same with the code each deployment's catch block carries
ErrorMappingAsCoded == ErrorMappingUpToCode(InternalErrorCode(variant))

\* the same of the deployment of app/api/mcp/route.ts alone
ErrorMappingOnVercel == variant = "vercel" => C30_ErrorMapping

====
